---- MODULE Spec2Model ----
(***************************************************************************)
(* Staging-to-warehouse synchronization of Oculus: Database.move_data_to_dwh,*)
(* Database.move_reference_data, the sync log, and move_data_to_dwh_task,   *)
(* together with the scraper's insert_data and the reference loader.        *)
(***************************************************************************)
EXTENDS Integers, Sequences, FiniteSets, TLC

(***************************************************************************)
(* Bounds of the model.                                                     *)
(***************************************************************************)
MaxTime == 2
MaxRuns == 2
MaxInserts == 2
\* exceptional events in one behaviour: a scraped row that is not a valid listing,
\* a crash of the worker, a reload of the reference data
MaxAnomalies == 1

(***************************************************************************)
(* Null values.  A datetime and an id have their own null so that the       *)
(* comparisons stay typed; SQL comparisons with NULL are false.             *)
(***************************************************************************)
None == "None"
NoTime == 0 - 1
NoId == 0

Ids == 1..MaxInserts
Times == 0..MaxTime

(***************************************************************************)
(* Table names.                                                             *)
(***************************************************************************)
StagingTables == <<"dl.willhaben", "dl.gebrauchtwagen">>
StagingSet == {"dl.willhaben", "dl.gebrauchtwagen"}

\* the entries of tables_to_sync that the model follows
tables_to_sync ==
    << [source_table |-> "dl.make", target_table |-> "dwh.make"],
       [source_table |-> "dl.car_type", target_table |-> "dwh.car_type"] >>

RefSources == {tables_to_sync[i].source_table : i \in 1..Len(tables_to_sync)}
DimTables == {"dwh.make", "dwh.model", "dwh.car_type", "dwh.fuel"}
LoggedTables == RefSources \cup StagingSet

(***************************************************************************)
(* Mapping tables (mapping/willhaben_mapping.json and                       *)
(* mapping/gebrauchtwagen_mapping.json), as functions from source label to  *)
(* canonical key.                                                           *)
(***************************************************************************)
willhaben_car_type_mapping == [k \in {"Klein-/ Kompaktwagen"} |-> "compact_car"]
willhaben_make_mapping == [k \in {"Mercedes-Benz"} |-> "mercedes_benz"]
willhaben_model_mapping == [k \in {"A-Klasse"} |-> "a_klasse"]
gebrauchtwagen_make_mapping == [k \in {"mercedes-benz"} |-> "mercedes_benz"]
gebrauchtwagen_model_mapping == [k \in {"a-klasse"} |-> "a_klasse"]
gebrauchtwagen_engine_fuel_mapping == [k \in {"benzin"} |-> "petrol"]

\* dict.get(key, default)
Get(mapping, key, default) == IF key \in DOMAIN mapping THEN mapping[key] ELSE default

\* Python truthiness of a string or None
Truthy(s) == s \notin {None, ""}

\* str.lower() on the vocabulary of the staging rows
LowerTable == [k \in {"Mercedes-Benz", "MERCEDES-BENZ", "A-Klasse", "Benzin", "Tesla"} |->
                 CASE k = "Mercedes-Benz" -> "mercedes-benz"
                   [] k = "MERCEDES-BENZ" -> "mercedes-benz"
                   [] k = "A-Klasse" -> "a-klasse"
                   [] k = "Benzin" -> "benzin"
                   [] k = "Tesla" -> "tesla"]
lower(s) == IF s \in DOMAIN LowerTable THEN LowerTable[s] ELSE s

\* str.strip() on the vocabulary of the staging rows
strip(s) == IF s = " " THEN "" ELSE s

\* len() of the postcodes of the staging rows
LongPostcode == "postcode-of-51-characters"
StrLen(s) == IF s = LongPostcode THEN 51 ELSE IF s = None THEN 0 ELSE 4
max_length_postcode == 50

\* transformations_willhaben is empty; transformations_gebrauchtwagen lower-cases
transformations(staging_table, row) ==
    IF staging_table = "dl.gebrauchtwagen"
    THEN [row EXCEPT !.make = lower(row.make), !.model = lower(row.model),
                     !.engine_fuel = lower(row.engine_fuel)]
    ELSE row

(***************************************************************************)
(* The contents a scraped row can have (all columns but id and last_synced).*)
(* fault names the statement of the row's processing that the database      *)
(* rejects ("none": every statement succeeds).                              *)
(***************************************************************************)
WhValid == [car_type |-> "Klein-/ Kompaktwagen", make |-> "Mercedes-Benz", model |-> "A-Klasse",
            engine_fuel |-> 3, postcode |-> "1010", location |-> <<"Wien">>, fault |-> "none"]
GwValid == [car_type |-> None, make |-> "Mercedes-Benz", model |-> "A-Klasse",
            engine_fuel |-> "Benzin", postcode |-> None, location |-> <<"1010", "Wien">>, fault |-> "none"]

WhSamples ==
    { WhValid,
      [WhValid EXCEPT !.car_type = "unknown_type_label"],
      [WhValid EXCEPT !.car_type = "compact_car"],
      [WhValid EXCEPT !.make = "MERCEDES-BENZ"],
      [WhValid EXCEPT !.fault = "fact"],
      [WhValid EXCEPT !.fault = "specification"],
      [WhValid EXCEPT !.postcode = LongPostcode] }

GwSamples ==
    { GwValid,
      [GwValid EXCEPT !.make = "Tesla"],
      [GwValid EXCEPT !.fault = "fact"],
      [GwValid EXCEPT !.fault = "location"] }

Samples(staging_table) == IF staging_table = "dl.willhaben" THEN WhSamples ELSE GwSamples

IsValidSample(staging_table, sample) ==
    sample = (IF staging_table = "dl.willhaben" THEN WhValid ELSE GwValid)

\* A staging row: a sample with its primary key and its last_synced column.
StagingRow(id, last_synced, sample) ==
    [id |-> id, last_synced |-> last_synced, car_type |-> sample.car_type, make |-> sample.make,
     model |-> sample.model, engine_fuel |-> sample.engine_fuel, postcode |-> sample.postcode,
     location |-> sample.location, fault |-> sample.fault]

(***************************************************************************)
(* The JSON files load_car_data can be given: make_name -> make_id.  The    *)
(* second one gives the make of the first file a new id.                    *)
(***************************************************************************)
CarDataFiles ==
    { [k \in {"mercedes_benz", "tesla"} |-> IF k = "tesla" THEN 2 ELSE 1],
      [k \in {"mercedes_benz", "tesla"} |-> IF k = "tesla" THEN 3 ELSE 2] }

DimRow(id, name, parent) == [id |-> id, name |-> name, parent |-> parent]

VARIABLES
    now,          \* the clock read by datetime.now() and GETDATE()
    ls_default,   \* the schema default of the last_synced columns: "null" or "getdate"
    staging,      \* dl.willhaben and dl.gebrauchtwagen: table -> set of staging rows
    dl_ref,       \* dl.make, dl.car_type: table -> set of [id, name, last_synced]
    dim,          \* dwh.make, dwh.model, dwh.car_type, dwh.fuel: table -> rows, in insertion order
    willwagen,    \* dwh.willwagen, committed rows, in insertion order
    child,        \* dwh.location, dwh.specification, ... committed rows, in insertion order
    txn,          \* the tables as the task's connection sees them: committed rows and
                  \* its own uncommitted writes, [willwagen, child]
    sync_log,     \* dwh.sync_log: set of [table_name, last_sync_time]
    task,         \* move_data_to_dwh_task: program counter and locals
    run,          \* history of the current (or last) fact synchronization run
    ref_run,      \* history of the current (or last) reference synchronization
    hist,         \* history across runs
    budget,       \* how many runs, inserts and anomalies have happened
    constraints,  \* the dl tables whose constraints are disabled (NOCHECK), committed
    load_run,     \* history of the last call of a reference loader
    call,         \* history of the last call of the dimension resolver
    workers,      \* concurrent runs of move_data_to_dwh: staging table -> the run's locals
    celery,       \* the Celery broker and worker: queued and running executions of move_data_to_dwh_task
    conv,         \* the last call of a conversion function: its argument and its result
    batch,        \* the current call of insert_data: its rows, position and counter
    database,     \* the Database object of a task: conn, cursor and the task's position
    http,         \* the current call of Willhaben.get_response
    scraper,      \* the Gebrauchtwagen scraper: global_seen_ids, data_list and the calls in progress
    loader        \* a request of the load_json route, statement by statement

vars == <<now, ls_default, staging, dl_ref, dim, willwagen, child, txn, sync_log, task, run,
          ref_run, hist, budget, constraints, load_run, call, workers,
          celery, conv, batch, database, http, scraper, loader>>

IdleTask == [pc |-> "idle", i |-> 0, table |-> "none", last_sync_time |-> NoTime, rows |-> {},
             delete_from_staging |-> FALSE, ref_done |-> {}, raised |-> "none"]

NoAborted == [armed |-> FALSE, selected |-> {}, watermark |-> NoTime]

NoRun == [table |-> "none", status |-> "none", start |-> NoTime, watermark |-> NoTime,
          snapshot |-> {}, selected |-> {}, pre |-> <<>>, inserted |-> {}, skipped |-> {},
          duplicate |-> {}, failed |-> {}, written |-> NoTime, delete_from_staging |-> FALSE,
          succession |-> FALSE, prev_selected |-> {}, unseen |-> {}, watch |-> {},
          after_abort |-> NoAborted, statements |-> <<>>, prev_completed |-> FALSE,
          prev_watermark |-> NoTime, unavailable |-> FALSE]

NoPrev == [completed |-> FALSE, selected |-> {}, watermark |-> NoTime]

NoRecover == [armed |-> FALSE, willwagen |-> <<>>, child |-> <<>>]
NoRefRecover == [armed |-> FALSE, rows |-> <<>>]

NoLoadRun == [fn |-> "none", status |-> "none", relaxed |-> {}, commit_relaxed |-> FALSE,
              failed_relaxed |-> FALSE]

NoCelery == [pc |-> "idle"]
NoConversion == [fn |-> "none", unix_time |-> NoTime, instant |-> [seconds |-> NoTime, millis |-> 0],
                 text |-> <<None>>,
                 parts |-> [raised |-> FALSE, first |-> <<None>>, second |-> <<None>>]]
NoBatch == [pc |-> "idle", table_name |-> "none", data |-> <<>>, k |-> 0, pending |-> {},
            successful_inserts |-> 0, counted |-> {}]
NoDatabase == [task |-> "none", pc |-> "idle", constructed |-> FALSE, conn |-> None, cursor |-> None,
               opened |-> FALSE, exit |-> "none", retries |-> 0, closes |-> 0, close_raised |-> {}]
NoHttp == [pc |-> "idle", retries |-> 0, attempt |-> 0, responses |-> <<>>, sleeps |-> {},
           result |-> "none"]
NoScraper == [pc |-> "idle", page |-> 0, global_seen_ids |-> {}, seen_before |-> {},
              data_list |-> <<>>, calls |-> 0, recursed |-> FALSE]
NoSnapshot == [rows |-> {}, log |-> {}]
NoLoader == [pc |-> "idle", entity |-> "none", ids |-> {}, i |-> 0, rows |-> {}, log |-> {},
             committed |-> NoSnapshot, before |-> NoSnapshot, status |-> "none"]

IdleWorker == [pc |-> "idle", last_sync_time |-> NoTime, rows |-> {}, facts |-> <<>>,
               children |-> <<>>, written |-> NoTime, overlapped |-> FALSE]

NoCall == [fn |-> "none", table |-> "none", value |-> None, result |-> NoId, pre |-> <<>>]

NoRefRun == [table |-> "none", status |-> "none", start |-> NoTime, watermark |-> NoTime,
             snapshot |-> {}, selected |-> {}, written |-> NoTime, pre |-> <<>>]

Init ==
    /\ now = 0
    /\ ls_default \in {"null", "getdate"}
    /\ staging = [t \in StagingSet |-> {}]
    /\ dl_ref = [t \in RefSources |->
                   {[id |-> 1, name |-> IF t = "dl.make" THEN "mercedes_benz" ELSE "compact_car",
                     last_synced |-> NoTime]}]
    /\ dim = [t \in DimTables |->
                CASE t = "dwh.model" -> <<DimRow(1, "a_klasse", 1)>>
                  [] t = "dwh.fuel" -> <<DimRow(1, "petrol", NoId)>>
                  [] t = "dwh.car_type" -> <<DimRow(1, "compact_car", NoId)>>
                  [] OTHER -> <<>>]
    /\ willwagen = <<>>
    /\ child = <<>>
    /\ txn = [willwagen |-> <<>>, child |-> <<>>]
    /\ sync_log = {}
    /\ task = IdleTask
    /\ run = NoRun
    /\ ref_run = NoRefRun
    /\ hist = [unseen |-> [t \in StagingSet |-> {}],
               dirty |-> [t \in StagingSet |-> FALSE],
               prev |-> [t \in StagingSet |-> NoPrev],
               during |-> [t \in StagingSet |-> {}],
               watch |-> [t \in StagingSet |-> {}],
               recover |-> [t \in StagingSet |-> NoRecover],
               aborted |-> [t \in StagingSet |-> NoAborted],
               ref_recover |-> [t \in RefSources |-> NoRefRecover]]
    /\ budget = [runs |-> 0, inserts |-> 0, anomalies |-> 0]
    /\ constraints = {}
    /\ load_run = NoLoadRun
    /\ call = NoCall
    /\ workers = [t \in StagingSet |-> IdleWorker]
    /\ celery = NoCelery
    /\ conv = NoConversion
    /\ batch = NoBatch
    /\ database = NoDatabase
    /\ http = NoHttp
    /\ scraper = NoScraper
    /\ loader = NoLoader


(***************************************************************************)
(* Transactions of the task's connection (pymssql, autocommit off).         *)
(***************************************************************************)
Committed == [willwagen |-> willwagen, child |-> child]

(***************************************************************************)
(* The sync log.                                                            *)
(***************************************************************************)
\* get_last_sync_time: the values fetchone() can return
get_last_sync_time(table_name) ==
    LET result == {r \in sync_log : r.table_name = table_name}
    IN IF result = {} THEN {NoTime} ELSE {r.last_sync_time : r \in result}

\* update_sync_time: MERGE INTO dwh.sync_log keyed by table_name
update_sync_time(log, table_name, sync_time) ==
    IF \E r \in log : r.table_name = table_name
    THEN {IF r.table_name = table_name THEN [r EXCEPT !.last_sync_time = sync_time] ELSE r : r \in log}
    ELSE log \cup {[table_name |-> table_name, last_sync_time |-> sync_time]}

\* SELECT ... WHERE last_synced > last_sync_time, or the unconditional SELECT
DeltaGreater_inclusive(last_synced, last_sync_time) ==
    last_synced # NoTime /\ last_synced >= last_sync_time

DeltaGreater(last_synced, last_sync_time) == last_synced # NoTime /\ last_synced > last_sync_time

DeltaRows_all(rows, last_sync_time) == rows

DeltaRows(rows, last_sync_time) ==
    IF last_sync_time # NoTime
    THEN {r \in rows : DeltaGreater(r.last_synced, last_sync_time)}
    ELSE rows

\* UPDATE ... SET last_synced = GETDATE() WHERE last_synced IS NULL OR last_synced > %s
MarkSynced(rows, last_sync_time, getdate) ==
    {IF r.last_synced = NoTime \/ r.last_synced > last_sync_time
     THEN [r EXCEPT !.last_synced = getdate] ELSE r : r \in rows}

(***************************************************************************)
(* The dimension resolver.                                                  *)
(***************************************************************************)
\* lookup: the ids fetchone() can return, NoId when there is none
lookup(table, value) ==
    IF ~Truthy(value) THEN {NoId}
    ELSE LET result == {dim[table][k].id : k \in {j \in 1..Len(dim[table]) : dim[table][j].name = value}}
         IN IF result = {} THEN {NoId} ELSE result

wh_car_type(row) == Get(willhaben_car_type_mapping, row.car_type, None)
wh_make(row) == Get(willhaben_make_mapping, row.make, row.make)
wh_model(row) == Get(willhaben_model_mapping, row.model, row.model)

gw_make(row) == Get(gebrauchtwagen_make_mapping, row.make, row.make)
gw_model(row) == Get(gebrauchtwagen_model_mapping, row.model, row.model)
gw_engine_fuel(row) == Get(gebrauchtwagen_engine_fuel_mapping, row.engine_fuel, row.engine_fuel)

(***************************************************************************)
(* Rows of the warehouse.                                                   *)
(***************************************************************************)
FactRow(source_id, willhaben_id, gw_guid, make_id, model_id, car_type_id, engine_fuel_id) ==
    [source_id |-> source_id, willhaben_id |-> willhaben_id, gw_guid |-> gw_guid,
     make_id |-> make_id, model_id |-> model_id, car_type_id |-> car_type_id,
     engine_fuel_id |-> engine_fuel_id]

ChildRow(tbl, willhaben_id, gebrauchtwagen_guid, postcode, location) ==
    [tbl |-> tbl, willhaben_id |-> willhaben_id, gebrauchtwagen_guid |-> gebrauchtwagen_guid,
     postcode |-> postcode, location |-> location]

\* SELECT 1 FROM dwh.willwagen WHERE willhaben_id = %s   (gw_guid = %s)
DuplicateExists_never(facts, column, id) == FALSE

DuplicateExists_any_column(facts, column, id) ==
    \E k \in 1..Len(facts) : facts[k].willhaben_id = id \/ facts[k].gw_guid = id

DuplicateExists(facts, column, id) ==
    IF column = "willhaben_id"
    THEN \E k \in 1..Len(facts) : facts[k].willhaben_id = id
    ELSE \E k \in 1..Len(facts) : facts[k].gw_guid = id

\* insert_or_update(table, data, keys = ["willhaben_id"]): MERGE
insert_or_update(children, data) ==
    IF \E k \in 1..Len(children) :
          children[k].tbl = data.tbl /\ children[k].willhaben_id = data.willhaben_id
    THEN [k \in 1..Len(children) |->
            IF children[k].tbl = data.tbl /\ children[k].willhaben_id = data.willhaben_id
            THEN data ELSE children[k]]
    ELSE Append(children, data)

\* row_dict["location"].split(" ", 1), a string being the sequence of its words
split_once(words) == IF Len(words) > 1 THEN << <<Head(words)>>, Tail(words) >> ELSE <<words>>
NoWords == <<>>
gw_postcode(location) ==
    LET location_parts == split_once(location)
    IN IF Len(location_parts) > 1 THEN location_parts[1][1] ELSE None
gw_city(location) ==
    LET location_parts == split_once(location)
    IN IF Len(location_parts) > 1 THEN location_parts[2] ELSE NoWords

source_id_of(staging_table) == IF staging_table = "dl.willhaben" THEN 1 ELSE 2
target_of(source_table) ==
    tables_to_sync[CHOOSE i \in 1..Len(tables_to_sync) :
                     tables_to_sync[i].source_table = source_table].target_table

(***************************************************************************)
(* The outcome of one row of the dl.willhaben branch of move_data_to_dwh.   *)
(***************************************************************************)
wh_outcome_no_car_type(row, car_type_id, make_id, model_id, facts) ==
    IF ~Truthy(wh_make(row)) THEN "skipped"
    ELSE IF make_id = NoId THEN "skipped"
    ELSE IF ~Truthy(wh_model(row)) THEN "skipped"
    ELSE IF model_id = NoId THEN "skipped"
    ELSE IF DuplicateExists(facts, "willhaben_id", row.id) THEN "duplicate"
    ELSE IF row.fault = "fact" THEN "fact_raised"
    ELSE IF Truthy(row.postcode) /\ StrLen(row.postcode) > max_length_postcode THEN "truncated"
    ELSE IF row.fault # "none" THEN "child_raised"
    ELSE "inserted"

wh_outcome(row, car_type_id, make_id, model_id, facts) ==
    IF ~Truthy(wh_car_type(row)) THEN "skipped"
    ELSE IF car_type_id = NoId THEN "skipped"
    ELSE IF ~Truthy(wh_make(row)) THEN "skipped"
    ELSE IF make_id = NoId THEN "skipped"
    ELSE IF ~Truthy(wh_model(row)) THEN "skipped"
    ELSE IF model_id = NoId THEN "skipped"
    ELSE IF DuplicateExists(facts, "willhaben_id", row.id) THEN "duplicate"
    ELSE IF row.fault = "fact" THEN "fact_raised"
    ELSE IF Truthy(row.postcode) /\ StrLen(row.postcode) > max_length_postcode THEN "truncated"
    ELSE IF row.fault # "none" THEN "child_raised"
    ELSE "inserted"

\* the child tables of a dl.willhaben listing
WhChildTables ==
    {"dwh.location", "dwh.specification", "dwh.description", "dwh.image_url", "dwh.seo_url"}

wh_children(children, row) ==
    insert_or_update(children, ChildRow("dwh.location", row.id, NoId, row.postcode, row.location))
      \o << ChildRow("dwh.specification", row.id, NoId, None, NoWords),
            ChildRow("dwh.description", row.id, NoId, None, NoWords),
            ChildRow("dwh.image_url", row.id, NoId, None, NoWords),
            ChildRow("dwh.seo_url", row.id, NoId, None, NoWords) >>

(***************************************************************************)
(* The outcome of one row of the dl.gebrauchtwagen branch.                  *)
(***************************************************************************)
gw_outcome(row, make_id, model_id, engine_fuel_id, facts) ==
    IF ~Truthy(gw_make(row)) THEN "skipped"
    ELSE IF make_id = NoId THEN "skipped"
    ELSE IF ~Truthy(row.model) \/ strip(row.model) = "" THEN "skipped"
    ELSE IF ~Truthy(gw_model(row)) THEN "skipped"
    ELSE IF model_id = NoId THEN "skipped"
    ELSE IF ~Truthy(row.engine_fuel) \/ strip(row.engine_fuel) = "" THEN "skipped"
    ELSE IF ~Truthy(gw_engine_fuel(row)) THEN "skipped"
    ELSE IF engine_fuel_id = NoId THEN "skipped"
    ELSE IF DuplicateExists(facts, "gw_guid", row.id) THEN "duplicate"
    ELSE IF row.fault = "fact" THEN "fact_raised"
    ELSE IF row.fault # "none" THEN "child_raised"
    ELSE "inserted"

gw_children(children, row) ==
    Append(children, ChildRow("dwh.location", NoId, row.id,
                              gw_postcode(row.location), gw_city(row.location)))

(***************************************************************************)
(* The statements one iteration of the loop issues on the connection, in    *)
(* the order of the code: the dimension lookups, the duplicate check, the   *)
(* fact insert, the child inserts, and the commits and rollbacks.           *)
(***************************************************************************)
Resolved == <<"resolve", "resolve", "resolve", "duplicate_check">>

statements(staging_table, outcome) ==
    IF outcome = "skipped" THEN <<"resolve">>
    ELSE IF outcome = "duplicate" THEN Resolved
    ELSE IF outcome = "fact_raised"
         \* insert_into_table rolls back, then the outer except clause
         THEN Resolved \o <<"insert_fact", "rollback", "rollback">>
    ELSE IF staging_table = "dl.willhaben"
         THEN IF outcome = "truncated" THEN Resolved \o <<"insert_fact", "commit">>
              ELSE IF outcome = "child_raised"
                   \* insert_into_table, the except clause of the row, its finally clause,
                   \* the outer except clause
                   THEN Resolved \o <<"insert_fact", "insert_child", "insert_child",
                                      "rollback", "rollback", "commit", "rollback">>
              ELSE Resolved \o <<"insert_fact", "insert_child", "insert_child", "insert_child",
                                 "insert_child", "insert_child", "commit">>
         ELSE IF outcome = "child_raised"
              THEN Resolved \o <<"insert_fact", "insert_child", "rollback", "rollback">>
              ELSE Resolved \o <<"insert_fact", "insert_child">>

(***************************************************************************)
(* MERGE of the selected source rows into a dimension table, keyed by id.   *)
(***************************************************************************)
merge_insert_only(target, row) == Append(target, DimRow(row.id, row.name, NoId))

merge_on_name(target, row) ==
    IF \E k \in 1..Len(target) : target[k].name = row.name
    THEN target
    ELSE Append(target, DimRow(row.id, row.name, NoId))

merge(target, row) ==
    IF \E k \in 1..Len(target) : target[k].id = row.id
    THEN [k \in 1..Len(target) |->
            IF target[k].id = row.id THEN [target[k] EXCEPT !.name = row.name] ELSE target[k]]
    ELSE Append(target, DimRow(row.id, row.name, NoId))

RECURSIVE merge_rows(_, _)
merge_rows(target, rows) ==
    IF rows = {} THEN target
    ELSE LET row == CHOOSE r \in rows : TRUE
         IN merge_rows(merge(target, row), rows \ {row})

(***************************************************************************)
(* Time passes between two readings of the clock: the clock advances once   *)
(* its current value has been stored somewhere.                             *)
(***************************************************************************)
ClockWasRead ==
    \/ \E t \in StagingSet : \E r \in staging[t] : r.last_synced = now
    \/ \E t \in RefSources : \E r \in dl_ref[t] : r.last_synced = now
    \/ \E r \in sync_log : r.last_sync_time = now
    \/ run.start = now
    \/ ref_run.start = now

Tick ==
    /\ now < MaxTime
    /\ ClockWasRead
    /\ now' = now + 1
    /\ UNCHANGED <<ls_default, staging, dl_ref, dim, willwagen, child, txn, sync_log, task, run,
                   ref_run, hist, budget, constraints,
                   load_run, call, workers,
                   celery, conv, batch, database, http, scraper, loader>>

(***************************************************************************)
(* The scraper: insert_data / insert_data_gebrauchtwagen with one row, on   *)
(* its own connection.  The INSERT does not name last_synced, which takes   *)
(* the column default.  A row whose id is in the table already raises       *)
(* IntegrityError and is skipped.                                           *)
(***************************************************************************)
insert_data(table_name, id, sample) ==
    /\ budget.inserts < MaxInserts
    /\ task.pc = "idle" \/ (task.table = table_name /\ task.pc \in {"row", "sync"})
    /\ \A r \in staging[table_name] : r.id # id
    /\ \A other \in Ids : other < id => \E r \in staging[table_name] : r.id = other
    /\ staging' = [staging EXCEPT ![table_name] =
                     @ \cup {StagingRow(id, IF ls_default = "getdate" THEN now ELSE NoTime, sample)}]
    /\ hist' = [hist EXCEPT !.unseen[table_name] = @ \cup {id},
                            !.dirty[table_name] = TRUE,
                            !.during[table_name] =
                                IF run.table = table_name /\ run.status \in {"selected", "finished"}
                                THEN @ \cup {id} ELSE @,
                            !.recover[table_name].armed = FALSE]
    /\ ~IsValidSample(table_name, sample) => budget.anomalies < MaxAnomalies
    /\ budget' = [budget EXCEPT !.inserts = @ + 1,
                                !.anomalies = IF IsValidSample(table_name, sample) THEN @ ELSE @ + 1]
    /\ UNCHANGED <<now, ls_default, dl_ref, dim, willwagen, child, txn, sync_log, task, run, ref_run, constraints,
                   load_run, call, workers,
                   celery, conv, batch, database, http, scraper, loader>>

(***************************************************************************)
(* The reference loaders.  Each is a list of statements on the loader's     *)
(* connection; the statement that raises, if any, is followed by the        *)
(* rollback of the except clause.  ALTER TABLE is part of the transaction.  *)
(***************************************************************************)
Statement(op, table) == [op |-> op, table |-> table]

ClearTable(table) ==
    <<Statement("nocheck", table), Statement("delete", table), Statement("check", table)>>

load_car_data_statements ==
    <<Statement("nocheck", "dl.model"), Statement("nocheck", "dl.make"),
      Statement("delete", "dl.model"), Statement("delete", "dl.make"),
      Statement("check", "dl.model"), Statement("check", "dl.make"),
      Statement("insert", "dl.make"), Statement("insert", "dl.model"),
      Statement("commit", "none")>>

load_car_engine_statements ==
    ClearTable("dl.engine_effect") \o ClearTable("dl.engine_fuel")
      \o ClearTable("dl.battery_capacity") \o ClearTable("dl.wltp_range")
      \o ClearTable("dl.transmission") \o ClearTable("dl.wheel_drive")
      \o <<Statement("commit", "none"), Statement("insert", "dl.engine_fuel"),
           Statement("commit", "none")>>

\* the loader's connection: the constraints it sees disabled, and those committed
Connection(committed) ==
    [relaxed |-> committed, committed |-> committed, commit_relaxed |-> FALSE,
     failed_relaxed |-> FALSE, commits |-> 0]

Execute(db, st) ==
    CASE st.op = "nocheck" -> [db EXCEPT !.relaxed = @ \cup {st.table}]
      [] st.op = "check" -> [db EXCEPT !.relaxed = @ \ {st.table}]
      [] st.op = "commit" -> [db EXCEPT !.committed = db.relaxed,
                                        !.commit_relaxed = @ \/ db.relaxed # {},
                                        !.commits = @ + 1]
      [] OTHER -> db

rollback_without_ddl(db) ==
    [db EXCEPT !.committed = db.relaxed, !.failed_relaxed = db.relaxed # {}]

rollback(db) == [db EXCEPT !.relaxed = db.committed, !.failed_relaxed = db.relaxed # {}]

\* the statements from the i-th on; statement number fail raises (0: none does)
RECURSIVE ExecuteFrom(_, _, _, _)
ExecuteFrom(db, stmts, i, fail) ==
    IF i > Len(stmts) THEN db
    ELSE IF i = fail THEN rollback(db)
    ELSE ExecuteFrom(Execute(db, stmts[i]), stmts, i + 1, fail)

LoadRun(fn, fail, db) ==
    [fn |-> fn, status |-> IF fail = 0 THEN "returned" ELSE "raised", relaxed |-> db.relaxed,
     commit_relaxed |-> db.commit_relaxed, failed_relaxed |-> db.failed_relaxed]

(***************************************************************************)
(* load_car_data: dl.make and dl.model are cleared and filled from the JSON *)
(* file, in one transaction.                                                *)
(***************************************************************************)
load_car_data(car_data, fail) ==
    /\ budget.anomalies < MaxAnomalies
    /\ task.pc = "idle"
    /\ LET db == ExecuteFrom(Connection(constraints), load_car_data_statements, 1, fail)
       IN /\ constraints' = db.committed
          /\ load_run' = LoadRun("load_car_data", fail, db)
    /\ dl_ref' = IF fail = 0
                 THEN [dl_ref EXCEPT !["dl.make"] =
                         {[id |-> car_data[k], name |-> k,
                           last_synced |-> IF ls_default = "getdate" THEN now ELSE NoTime] :
                             k \in DOMAIN car_data}]
                 ELSE dl_ref
    /\ hist' = IF fail = 0
               THEN [hist EXCEPT !.recover = [t \in StagingSet |-> [@[t] EXCEPT !.armed = FALSE]],
                                 !.ref_recover["dl.make"].armed = FALSE]
               ELSE hist
    /\ budget' = [budget EXCEPT !.anomalies = @ + 1]
    /\ UNCHANGED <<now, ls_default, staging, dim, willwagen, child, txn, task, run, ref_run,
                   call, workers,
                   celery, conv, batch, database, http, scraper, loader>>

(***************************************************************************)
(* load_car_engine: the engine tables are cleared and committed, then       *)
(* filled and committed.  The model does not follow their rows.             *)
(***************************************************************************)
load_car_engine(fail) ==
    /\ budget.anomalies < MaxAnomalies
    /\ task.pc = "idle"
    /\ LET db == ExecuteFrom(Connection(constraints), load_car_engine_statements, 1, fail)
       IN /\ constraints' = db.committed
          /\ load_run' = LoadRun("load_car_engine", fail, db)
    /\ budget' = [budget EXCEPT !.anomalies = @ + 1]
    /\ UNCHANGED <<now, ls_default, staging, dl_ref, dim, willwagen, child, txn, task,
                   run, ref_run, hist, call, workers,
                   celery, conv, batch, database, http, scraper, loader>>

(***************************************************************************)
(* The load_json route: it deletes the sync-log entries of the entity's     *)
(* tables on the loader's connection, without a commit of its own, then     *)
(* calls the loader.  The deletion is committed by the loader's first       *)
(* commit and rolled back with it otherwise.                                *)
(***************************************************************************)
table_mapping ==
    [entity \in {"car_data", "car_engine"} |->
        IF entity = "car_data" THEN {"dl.make", "dl.model"}
        ELSE {"dl.engine_effect", "dl.engine_fuel", "dl.battery_capacity", "dl.wltp_range",
              "dl.transmission", "dl.wheel_drive"}]

LoaderStatements(entity) ==
    IF entity = "car_data" THEN load_car_data_statements ELSE load_car_engine_statements

JsonFiles(entity) ==
    IF entity = "car_data" THEN CarDataFiles ELSE {[k \in {"petrol"} |-> 1]}

\* DELETE FROM dwh.sync_log WHERE table_name = %s, for each table of the entity
delete_sync_log(log, tables) == {r \in log : r.table_name \notin tables}

load_json(entity, file, fail) ==
    /\ IF entity = "car_data" THEN load_car_data(file, fail) ELSE load_car_engine(fail)
    /\ LET db == ExecuteFrom(Connection(constraints), LoaderStatements(entity), 1, fail)
       IN sync_log' = IF db.commits > 0
                      THEN delete_sync_log(sync_log, table_mapping[entity])
                      ELSE sync_log

(***************************************************************************)
(* move_data_to_dwh_task, step by step.                                     *)
(***************************************************************************)
move_data_to_dwh_task(delete_from_staging) ==
    /\ task.pc = "idle"
    /\ budget.runs < MaxRuns
    /\ task' = [IdleTask EXCEPT !.pc = "ref_get", !.i = 1,
                                !.table = tables_to_sync[1].source_table,
                                !.delete_from_staging = delete_from_staging]
    /\ budget' = [budget EXCEPT !.runs = @ + 1]
    /\ load_run' = NoLoadRun
    /\ UNCHANGED <<now, ls_default, staging, dl_ref, dim, willwagen, child, txn, sync_log, run,
                   ref_run, hist, constraints, call, workers,
                   celery, conv, batch, database, http, scraper, loader>>

\* last_sync_time = db.get_last_sync_time(table["source_table"])
RefGetLastSyncTime ==
    /\ task.pc = "ref_get"
    /\ \E last_sync_time \in get_last_sync_time(task.table) :
         /\ task' = [task EXCEPT !.pc = "ref_move", !.last_sync_time = last_sync_time]
         /\ ref_run' = [NoRefRun EXCEPT !.table = task.table, !.status = "started",
                                        !.start = now, !.watermark = last_sync_time]
    /\ UNCHANGED <<now, ls_default, staging, dl_ref, dim, willwagen, child, txn, sync_log, run,
                   hist, budget, constraints,
                   load_run, call, workers,
                   celery, conv, batch, database, http, scraper, loader>>

\* db.move_reference_data(...)
move_reference_data ==
    /\ task.pc = "ref_move"
    /\ LET source_table == task.table
           target_table == target_of(source_table)
           rows == DeltaRows(dl_ref[source_table], task.last_sync_time)
       IN /\ IF rows = {}
             THEN UNCHANGED <<dim, dl_ref>>
             ELSE /\ dim' = [dim EXCEPT ![target_table] = merge_rows(@, rows)]
                  /\ dl_ref' = IF task.last_sync_time # NoTime
                               THEN [dl_ref EXCEPT ![source_table] =
                                       MarkSynced(@, task.last_sync_time, now)]
                               ELSE dl_ref
          /\ ref_run' = [ref_run EXCEPT !.status = "moved", !.snapshot = dl_ref[source_table],
                                        !.selected = rows, !.pre = dim[target_table]]
    /\ task' = [task EXCEPT !.pc = "ref_sync"]
    /\ UNCHANGED <<now, ls_default, staging, willwagen, child, txn, sync_log, run, hist, budget, constraints,
                   load_run, call, workers,
                   celery, conv, batch, database, http, scraper, loader>>

\* db.update_sync_time(table["source_table"], datetime.now())
RefUpdateSyncTime_skip_empty ==
    /\ task.pc = "ref_sync"
    /\ sync_log' = IF ref_run.selected = {} THEN sync_log
                   ELSE update_sync_time(sync_log, task.table, now)
    /\ ref_run' = [ref_run EXCEPT !.status = "completed", !.written = now]
    /\ task' = IF task.i < Len(tables_to_sync)
               THEN [task EXCEPT !.pc = "ref_get", !.i = @ + 1,
                                 !.table = tables_to_sync[task.i + 1].source_table,
                                 !.last_sync_time = NoTime, !.ref_done = @ \cup {task.table}]
               ELSE [task EXCEPT !.pc = "get", !.i = 1, !.table = StagingTables[1],
                                 !.last_sync_time = NoTime, !.ref_done = @ \cup {task.table}]
    /\ UNCHANGED <<now, ls_default, staging, dl_ref, dim, willwagen, child, txn, run, hist, budget,
                   constraints, load_run, call, workers,
                   celery, conv, batch, database, http, scraper, loader>>

RefUpdateSyncTime ==
    /\ task.pc = "ref_sync"
    /\ sync_log' = update_sync_time(sync_log, task.table, now)
    /\ ref_run' = [ref_run EXCEPT !.status = "completed", !.written = now]
    /\ task' = IF task.i < Len(tables_to_sync)
               THEN [task EXCEPT !.pc = "ref_get", !.i = @ + 1,
                                 !.table = tables_to_sync[task.i + 1].source_table,
                                 !.last_sync_time = NoTime, !.ref_done = @ \cup {task.table}]
               ELSE [task EXCEPT !.pc = "get", !.i = 1, !.table = StagingTables[1],
                                 !.last_sync_time = NoTime, !.ref_done = @ \cup {task.table}]
    /\ UNCHANGED <<now, ls_default, staging, dl_ref, dim, willwagen, child, txn, run, hist, budget, constraints,
                   load_run, call, workers,
                   celery, conv, batch, database, http, scraper, loader>>

(***************************************************************************)
(* get_last_sync_time raises (dwh.sync_log cannot be read): the exception   *)
(* leaves the try block of the task, which re-raises it and closes the      *)
(* connection.                                                              *)
(***************************************************************************)
GetLastSyncTimeRaises_full_load ==
    /\ task.pc \in {"ref_get", "get"}
    /\ budget.anomalies < MaxAnomalies
    /\ txn' = Committed
    /\ task' = [task EXCEPT !.pc = IF task.pc = "get" THEN "select" ELSE "return",
                            !.last_sync_time = NoTime,
                            !.raised = IF task.pc = "get" THEN @ ELSE "get_last_sync_time"]
    /\ run' = IF task.pc = "get"
              THEN [NoRun EXCEPT !.table = task.table, !.status = "raised",
                                 !.pre = txn.willwagen, !.unavailable = TRUE,
                                 !.delete_from_staging = task.delete_from_staging]
              ELSE run
    /\ ref_run' = IF task.pc = "ref_get"
                  THEN [NoRefRun EXCEPT !.table = task.table, !.status = "raised"]
                  ELSE ref_run
    /\ budget' = [budget EXCEPT !.anomalies = @ + 1]
    /\ UNCHANGED <<now, ls_default, staging, dl_ref, dim, willwagen, child, sync_log, hist,
                   constraints, load_run, call, workers,
                   celery, conv, batch, database, http, scraper, loader>>

GetLastSyncTimeRaises_skip_table ==
    /\ task.pc \in {"ref_get", "get"}
    /\ budget.anomalies < MaxAnomalies
    /\ txn' = Committed
    /\ task' = IF task.pc = "ref_get"
               THEN [task EXCEPT !.pc = "get", !.i = 1, !.table = StagingTables[1],
                                 !.last_sync_time = NoTime]
               ELSE [task EXCEPT !.pc = "return", !.raised = "get_last_sync_time"]
    /\ run' = IF task.pc = "get"
              THEN [NoRun EXCEPT !.table = task.table, !.status = "raised",
                                 !.pre = txn.willwagen, !.unavailable = TRUE,
                                 !.delete_from_staging = task.delete_from_staging]
              ELSE run
    /\ ref_run' = IF task.pc = "ref_get"
                  THEN [NoRefRun EXCEPT !.table = task.table, !.status = "raised"]
                  ELSE ref_run
    /\ budget' = [budget EXCEPT !.anomalies = @ + 1]
    /\ UNCHANGED <<now, ls_default, staging, dl_ref, dim, willwagen, child, sync_log, hist,
                   constraints, load_run, call, workers,
                   celery, conv, batch, database, http, scraper, loader>>

GetLastSyncTimeRaises ==
    /\ task.pc \in {"ref_get", "get"}
    /\ budget.anomalies < MaxAnomalies
    /\ txn' = Committed
    /\ task' = [task EXCEPT !.pc = "return", !.raised = "get_last_sync_time"]
    /\ run' = IF task.pc = "get"
              THEN [NoRun EXCEPT !.table = task.table, !.status = "raised",
                                 !.pre = txn.willwagen, !.unavailable = TRUE,
                                 !.delete_from_staging = task.delete_from_staging]
              ELSE run
    /\ ref_run' = IF task.pc = "ref_get"
                  THEN [NoRefRun EXCEPT !.table = task.table, !.status = "raised"]
                  ELSE ref_run
    /\ budget' = [budget EXCEPT !.anomalies = @ + 1]
    /\ UNCHANGED <<now, ls_default, staging, dl_ref, dim, willwagen, child, sync_log, hist,
                   constraints, load_run, call, workers,
                   celery, conv, batch, database, http, scraper, loader>>

\* last_sync_time = db.get_last_sync_time("dl.willhaben") / ("dl.gebrauchtwagen")
FactGetLastSyncTime ==
    /\ task.pc = "get"
    /\ \E last_sync_time \in get_last_sync_time(task.table) :
         /\ task' = [task EXCEPT !.pc = "select", !.last_sync_time = last_sync_time]
         /\ run' = [NoRun EXCEPT !.table = task.table, !.status = "started", !.start = now,
                                 !.watermark = last_sync_time,
                                 !.delete_from_staging = task.delete_from_staging]
    /\ UNCHANGED <<now, ls_default, staging, dl_ref, dim, willwagen, child, txn, sync_log,
                   ref_run, hist, budget, constraints,
                   load_run, call, workers,
                   celery, conv, batch, database, http, scraper, loader>>

\* move_data_to_dwh: the delta SELECT and the early return when it is empty
SelectDelta ==
    /\ task.pc = "select"
    /\ LET rows == DeltaRows(staging[task.table], task.last_sync_time)
       IN /\ task' = [task EXCEPT !.pc = IF rows = {} THEN "sync" ELSE "row", !.rows = rows]
          /\ run' = [run EXCEPT !.status = IF rows = {} THEN "finished" ELSE "selected",
                                !.snapshot = staging[task.table], !.selected = rows,
                                !.pre = txn.willwagen,
                                !.unseen = hist.unseen[task.table],
                                !.watch = hist.watch[task.table],
                                !.succession = hist.prev[task.table].completed
                                                 /\ ~hist.dirty[task.table],
                                !.prev_selected = hist.prev[task.table].selected,
                                !.after_abort = hist.aborted[task.table],
                                !.prev_completed = hist.prev[task.table].completed,
                                !.prev_watermark = hist.prev[task.table].watermark]
          /\ hist' = [hist EXCEPT !.unseen[task.table] = @ \ {r.id : r \in rows},
                                  !.aborted[task.table] = NoAborted,
                                  !.during[task.table] = {},
                                  !.watch[task.table] = {}]
    /\ UNCHANGED <<now, ls_default, staging, dl_ref, dim, willwagen, child, txn, sync_log,
                   ref_run, budget, constraints,
                   load_run, call, workers,
                   celery, conv, batch, database, http, scraper, loader>>

(***************************************************************************)
(* move_data_to_dwh: one iteration of "for row in rows".                    *)
(***************************************************************************)
\* an exception leaves the loop: the except clauses roll back, the task re-raises
\* and closes its connection
RaiseFromRow_advance(r) ==
    /\ txn' = Committed
    /\ task' = [task EXCEPT !.pc = "return", !.rows = {}, !.raised = "move_data_to_dwh"]
    /\ run' = [run EXCEPT !.status = "raised", !.failed = @ \cup {r.id},
                          !.statements = statements(task.table, IF r.fault = "fact"
                                                                THEN "fact_raised"
                                                                ELSE "child_raised")]
    /\ hist' = [hist EXCEPT !.prev[task.table] = NoPrev, !.watch[task.table] = {},
                            !.during[task.table] = {},
                            !.aborted[task.table] =
                                [armed |-> TRUE, selected |-> {x.id : x \in run.selected},
                                 watermark |-> run.watermark]]
    /\ sync_log' = update_sync_time(sync_log, task.table, now)
    /\ UNCHANGED <<willwagen, child>>

RaiseFromRow(r) ==
    /\ txn' = Committed
    /\ task' = [task EXCEPT !.pc = "return", !.rows = {}, !.raised = "move_data_to_dwh"]
    /\ run' = [run EXCEPT !.status = "raised", !.failed = @ \cup {r.id},
                          !.statements = statements(task.table, IF r.fault = "fact"
                                                                THEN "fact_raised"
                                                                ELSE "child_raised")]
    /\ hist' = [hist EXCEPT !.prev[task.table] = NoPrev, !.watch[task.table] = {},
                            !.during[task.table] = {},
                            !.aborted[task.table] =
                                [armed |-> TRUE, selected |-> {x.id : x \in run.selected},
                                 watermark |-> run.watermark]]
    /\ UNCHANGED <<willwagen, child, sync_log>>

\* "continue" before anything was written
SkipRow_break(r, outcome) ==
    /\ task' = [task EXCEPT !.rows = {}]
    /\ run' = [run EXCEPT !.skipped = @ \cup {r.id},
                          !.duplicate = IF outcome = "duplicate" THEN @ \cup {r.id} ELSE @,
                          !.statements = statements(task.table, outcome)]
    /\ UNCHANGED <<willwagen, child, txn, hist, sync_log>>

SkipRow(r, outcome) ==
    /\ task' = [task EXCEPT !.rows = @ \ {r}]
    /\ run' = [run EXCEPT !.skipped = @ \cup {r.id},
                          !.duplicate = IF outcome = "duplicate" THEN @ \cup {r.id} ELSE @,
                          !.statements = statements(task.table, outcome)]
    /\ UNCHANGED <<willwagen, child, txn, hist, sync_log>>

ProcessWillhaben(r, row) ==
    \E car_type_id \in lookup("dwh.car_type", wh_car_type(row)),
       make_id \in lookup("dwh.make", wh_make(row)),
       model_id \in lookup("dwh.model", wh_model(row)) :
        LET outcome == wh_outcome(row, car_type_id, make_id, model_id, txn.willwagen)
            transformed_willwagen ==
                FactRow(source_id_of(task.table), row.id, NoId, make_id, model_id, car_type_id,
                        row.engine_fuel)
            facts == Append(txn.willwagen, transformed_willwagen)
        IN CASE outcome \in {"skipped", "duplicate"} -> SkipRow(r, outcome)
             [] outcome \in {"fact_raised", "child_raised"} -> RaiseFromRow(r)
             [] outcome = "truncated" ->
                  \* "continue" inside the try: the finally clause commits the fact row
                  /\ txn' = [txn EXCEPT !.willwagen = facts]
                  /\ willwagen' = facts
                  /\ child' = txn.child
                  /\ task' = [task EXCEPT !.rows = @ \ {r}]
                  /\ run' = [run EXCEPT !.inserted = @ \cup {r.id}, !.skipped = @ \cup {r.id},
                                        !.statements = statements(task.table, outcome)]
                  /\ UNCHANGED <<hist, sync_log>>
             [] outcome = "inserted" ->
                  /\ txn' = [willwagen |-> facts, child |-> wh_children(txn.child, row)]
                  /\ willwagen' = facts
                  /\ child' = wh_children(txn.child, row)
                  /\ task' = [task EXCEPT !.rows = @ \ {r}]
                  /\ run' = [run EXCEPT !.inserted = @ \cup {r.id},
                                        !.statements = statements(task.table, outcome)]
                  /\ UNCHANGED <<hist, sync_log>>

ProcessGebrauchtwagen(r, row) ==
    \E make_id \in lookup("dwh.make", gw_make(row)),
       model_id \in lookup("dwh.model", gw_model(row)),
       engine_fuel_id \in lookup("dwh.fuel", gw_engine_fuel(row)) :
        LET outcome == gw_outcome(row, make_id, model_id, engine_fuel_id, txn.willwagen)
            transformed_willwagen ==
                FactRow(source_id_of(task.table), NoId, row.id, make_id, model_id, NoId,
                        engine_fuel_id)
        IN CASE outcome \in {"skipped", "duplicate"} -> SkipRow(r, outcome)
             [] outcome \in {"fact_raised", "child_raised"} -> RaiseFromRow(r)
             [] outcome = "inserted" ->
                  \* no commit in this branch
                  /\ txn' = [willwagen |-> Append(txn.willwagen, transformed_willwagen),
                             child |-> gw_children(txn.child, row)]
                  /\ task' = [task EXCEPT !.rows = @ \ {r}]
                  /\ run' = [run EXCEPT !.inserted = @ \cup {r.id},
                                        !.statements = statements(task.table, outcome)]
                  /\ UNCHANGED <<willwagen, child, hist, sync_log>>

ProcessRow ==
    /\ task.pc = "row"
    /\ \E r \in task.rows :
         LET row == transformations(task.table, r)
         IN IF task.table = "dl.willhaben"
            THEN ProcessWillhaben(r, row)
            ELSE ProcessGebrauchtwagen(r, row)
    /\ UNCHANGED <<now, ls_default, staging, dl_ref, dim, ref_run, budget, constraints,
                   load_run, call, workers,
                   celery, conv, batch, database, http, scraper, loader>>

\* move_data_to_dwh after the loop: DELETE, UPDATE last_synced, commit
FinishRun ==
    /\ task.pc = "row"
    /\ task.rows = {}
    /\ LET kept == IF task.delete_from_staging THEN {} ELSE staging[task.table]
       IN staging' = [staging EXCEPT ![task.table] =
                        IF task.last_sync_time # NoTime
                        THEN MarkSynced(kept, task.last_sync_time, now)
                        ELSE kept]
    /\ willwagen' = txn.willwagen
    /\ child' = txn.child
    /\ task' = [task EXCEPT !.pc = "sync"]
    /\ run' = [run EXCEPT !.status = "finished"]
    /\ UNCHANGED <<now, ls_default, dl_ref, dim, txn, sync_log, ref_run, hist, budget, constraints,
                   load_run, call, workers,
                   celery, conv, batch, database, http, scraper, loader>>

\* db.update_sync_time("dl.willhaben", datetime.now()) / ("dl.gebrauchtwagen", ...)
FactUpdateSyncTime ==
    /\ task.pc = "sync"
    /\ sync_log' = update_sync_time(sync_log, task.table, now)
    /\ run' = [run EXCEPT !.status = "completed", !.written = now]
    /\ hist' = [hist EXCEPT !.prev[task.table] =
                                [completed |-> TRUE, selected |-> {r.id : r \in run.selected},
                                 watermark |-> run.watermark],
                            !.dirty[task.table] = FALSE,
                            !.watch[task.table] = hist.during[task.table],
                            !.during[task.table] = {}]
    /\ task' = IF task.i < Len(StagingTables)
               THEN [task EXCEPT !.pc = "get", !.i = @ + 1, !.table = StagingTables[task.i + 1],
                                 !.last_sync_time = NoTime, !.rows = {}]
               ELSE [task EXCEPT !.pc = "return", !.rows = {}]
    /\ UNCHANGED <<now, ls_default, staging, dl_ref, dim, willwagen, child, txn, ref_run, budget, constraints,
                   load_run, call, workers,
                   celery, conv, batch, database, http, scraper, loader>>

\* the task returns or re-raises; finally: db.close()
TaskReturn ==
    /\ task.pc = "return"
    /\ task' = IdleTask
    /\ run' = NoRun
    /\ ref_run' = NoRefRun
    /\ UNCHANGED <<now, ls_default, staging, dl_ref, dim, willwagen, child, txn, sync_log, hist,
                   budget, constraints,
                   load_run, call, workers,
                   celery, conv, batch, database, http, scraper, loader>>

(***************************************************************************)
(* The worker process dies: the open transaction is lost, the committed     *)
(* rows stay.                                                               *)
(***************************************************************************)
Crash ==
    /\ task.pc \in {"ref_sync", "row", "sync"}
    /\ budget.anomalies < MaxAnomalies
    /\ txn' = Committed
    /\ task' = [task EXCEPT !.pc = "return", !.rows = {}]
    /\ run' = IF task.pc \in {"row", "sync"} THEN [run EXCEPT !.status = "crashed"] ELSE run
    /\ ref_run' = IF task.pc = "ref_sync" THEN [ref_run EXCEPT !.status = "crashed"] ELSE ref_run
    /\ hist' = IF task.pc \in {"row", "sync"}
               THEN [hist EXCEPT !.prev[task.table] = NoPrev, !.watch[task.table] = {},
                                 !.during[task.table] = {},
                                 !.aborted[task.table] =
                                     IF task.pc = "row"
                                     THEN [armed |-> TRUE,
                                           selected |-> {x.id : x \in run.selected},
                                           watermark |-> run.watermark]
                                     ELSE @,
                                 !.recover[task.table] =
                                     IF task.pc = "sync"
                                     THEN [armed |-> hist.during[task.table] = {},
                                           willwagen |-> willwagen, child |-> child]
                                     ELSE @]
               ELSE IF task.pc = "ref_sync"
               THEN [hist EXCEPT !.ref_recover[task.table] =
                                     [armed |-> TRUE, rows |-> dim[target_of(task.table)]]]
               ELSE hist
    /\ budget' = [budget EXCEPT !.anomalies = @ + 1]
    /\ UNCHANGED <<now, ls_default, staging, dl_ref, dim, willwagen, child, sync_log, constraints,
                   load_run, call, workers,
                   celery, conv, batch, database, http, scraper, loader>>

Next ==
    \/ Tick
    \/ \E table_name \in StagingSet, id \in Ids :
         \E sample \in Samples(table_name) : insert_data(table_name, id, sample)
    \/ \E entity \in DOMAIN table_mapping :
         \E file \in JsonFiles(entity), fail \in 0..Len(LoaderStatements(entity)) :
            load_json(entity, file, fail)
    \/ \E delete_from_staging \in BOOLEAN : move_data_to_dwh_task(delete_from_staging)
    \/ RefGetLastSyncTime
    \/ GetLastSyncTimeRaises
    \/ move_reference_data
    \/ RefUpdateSyncTime
    \/ FactGetLastSyncTime
    \/ SelectDelta
    \/ ProcessRow
    \/ FinishRun
    \/ FactUpdateSyncTime
    \/ TaskReturn
    \/ Crash

Spec == Init /\ [][Next]_vars

(***************************************************************************)
(* The dimension resolver on its own: lookup and lookup_or_insert called    *)
(* with any value on any contents of the dimension tables.                  *)
(***************************************************************************)
ResolverValues == {None, "", "mercedes_benz", "tesla"}

ResolverDims ==
    { <<>>,
      <<DimRow(1, "mercedes_benz", NoId)>>,
      <<DimRow(1, "mercedes_benz", NoId), DimRow(2, "tesla", NoId)>>,
      <<DimRow(1, "mercedes_benz", NoId), DimRow(2, "mercedes_benz", NoId)>> }

\* OUTPUT inserted.id of an identity column
inserted_id(rows) ==
    IF rows = <<>> THEN 1
    ELSE 1 + CHOOSE m \in {rows[k].id : k \in 1..Len(rows)} :
                 \A k \in 1..Len(rows) : rows[k].id <= m

\* lookup_or_insert: the outcomes [result, rows] the call can have
lookup_or_insert_unguarded(rows, value) ==
    LET result == {rows[k].id : k \in {j \in 1..Len(rows) : rows[j].name = value}}
    IN IF result # {} THEN {[result |-> id, rows |-> rows] : id \in result}
       ELSE {[result |-> inserted_id(rows),
              rows |-> Append(rows, DimRow(inserted_id(rows), value, NoId))]}

lookup_or_insert(rows, value) ==
    IF ~Truthy(value) THEN {[result |-> NoId, rows |-> rows]}
    ELSE LET result == {rows[k].id : k \in {j \in 1..Len(rows) : rows[j].name = value}}
         IN IF result # {} THEN {[result |-> id, rows |-> rows] : id \in result}
            ELSE {[result |-> inserted_id(rows),
                   rows |-> Append(rows, DimRow(inserted_id(rows), value, NoId))]}

ResolverInit ==
    /\ now = 0
    /\ ls_default = "null"
    /\ staging = [t \in StagingSet |-> {}]
    /\ dl_ref = [t \in RefSources |-> {}]
    /\ dim \in [DimTables -> ResolverDims]
    /\ willwagen = <<>>
    /\ child = <<>>
    /\ txn = [willwagen |-> <<>>, child |-> <<>>]
    /\ sync_log = {}
    /\ task = IdleTask
    /\ run = NoRun
    /\ ref_run = NoRefRun
    /\ hist = [unseen |-> [t \in StagingSet |-> {}],
               dirty |-> [t \in StagingSet |-> FALSE],
               prev |-> [t \in StagingSet |-> NoPrev],
               during |-> [t \in StagingSet |-> {}],
               watch |-> [t \in StagingSet |-> {}],
               recover |-> [t \in StagingSet |-> NoRecover],
               aborted |-> [t \in StagingSet |-> NoAborted],
               ref_recover |-> [t \in RefSources |-> NoRefRecover]]
    /\ budget = [runs |-> 0, inserts |-> 0, anomalies |-> 0]
    /\ constraints = {}
    /\ load_run = NoLoadRun
    /\ call = NoCall
    /\ workers = [t \in StagingSet |-> IdleWorker]
    /\ celery = NoCelery
    /\ conv = NoConversion
    /\ batch = NoBatch
    /\ database = NoDatabase
    /\ http = NoHttp
    /\ scraper = NoScraper
    /\ loader = NoLoader

Lookup(table, value) ==
    /\ \E result \in lookup(table, value) :
         call' = [fn |-> "lookup", table |-> table, value |-> value, result |-> result,
                  pre |-> dim[table]]
    /\ UNCHANGED <<now, ls_default, staging, dl_ref, dim, willwagen, child, txn, sync_log, task,
                   run, ref_run, hist, budget, constraints, load_run, workers,
                   celery, conv, batch, database, http, scraper, loader>>

LookupOrInsert(table, value) ==
    /\ \E out \in lookup_or_insert(dim[table], value) :
         /\ dim' = [dim EXCEPT ![table] = out.rows]
         /\ call' = [fn |-> "lookup_or_insert", table |-> table, value |-> value,
                     result |-> out.result, pre |-> dim[table]]
    /\ UNCHANGED <<now, ls_default, staging, dl_ref, willwagen, child, txn, sync_log, task,
                   run, ref_run, hist, budget, constraints, load_run, workers,
                   celery, conv, batch, database, http, scraper, loader>>

ResolverNext ==
    \/ \E table \in DimTables, value \in ResolverValues : Lookup(table, value)
    \/ \E table \in DimTables, value \in ResolverValues : LookupOrInsert(table, value)

ResolverSpec == ResolverInit /\ [][ResolverNext]_vars

(***************************************************************************)
(* Two workers, one per staging table, each running get_last_sync_time,     *)
(* move_data_to_dwh and update_sync_time on a connection of its own, their  *)
(* statements interleaved.  A connection sees the committed rows and its    *)
(* own uncommitted ones.                                                    *)
(***************************************************************************)
ConcurrentSamples(staging_table) ==
    IF staging_table = "dl.willhaben"
    THEN {WhValid, [WhValid EXCEPT !.car_type = "unknown_type_label"]}
    ELSE {GwValid, [GwValid EXCEPT !.make = "Tesla"]}

\* the contents of a staging table: up to MaxInserts rows with the ids 1, 2, ...
ConcurrentStaging(staging_table) ==
    UNION { { {StagingRow(id, NoTime, sample[id]) : id \in 1..n} :
                sample \in [1..n -> ConcurrentSamples(staging_table)] } : n \in 0..MaxInserts }

ConcurrentInit ==
    /\ now = 0
    /\ ls_default = "null"
    /\ \E wh \in ConcurrentStaging("dl.willhaben"), gw \in ConcurrentStaging("dl.gebrauchtwagen") :
         staging = [t \in StagingSet |-> IF t = "dl.willhaben" THEN wh ELSE gw]
    /\ dl_ref = [t \in RefSources |->
                   {[id |-> 1, name |-> IF t = "dl.make" THEN "mercedes_benz" ELSE "compact_car",
                     last_synced |-> NoTime]}]
    /\ dim = [t \in DimTables |->
                CASE t = "dwh.make" -> <<DimRow(1, "mercedes_benz", NoId)>>
                  [] t = "dwh.model" -> <<DimRow(1, "a_klasse", 1)>>
                  [] t = "dwh.fuel" -> <<DimRow(1, "petrol", NoId)>>
                  [] t = "dwh.car_type" -> <<DimRow(1, "compact_car", NoId)>>]
    /\ willwagen = <<>>
    /\ child = <<>>
    /\ txn = [willwagen |-> <<>>, child |-> <<>>]
    /\ sync_log = {}
    /\ task = IdleTask
    /\ run = NoRun
    /\ ref_run = NoRefRun
    /\ hist = [unseen |-> [t \in StagingSet |-> {}],
               dirty |-> [t \in StagingSet |-> FALSE],
               prev |-> [t \in StagingSet |-> NoPrev],
               during |-> [t \in StagingSet |-> {}],
               watch |-> [t \in StagingSet |-> {}],
               recover |-> [t \in StagingSet |-> NoRecover],
               aborted |-> [t \in StagingSet |-> NoAborted],
               ref_recover |-> [t \in RefSources |-> NoRefRecover]]
    /\ budget = [runs |-> 0, inserts |-> 0, anomalies |-> 0]
    /\ constraints = {}
    /\ load_run = NoLoadRun
    /\ call = NoCall
    /\ workers = [t \in StagingSet |-> [IdleWorker EXCEPT !.pc = "get"]]
    /\ celery = NoCelery
    /\ conv = NoConversion
    /\ batch = NoBatch
    /\ database = NoDatabase
    /\ http = NoHttp
    /\ scraper = NoScraper
    /\ loader = NoLoader

Other(staging_table) == CHOOSE t \in StagingSet : t # staging_table

\* the warehouse as the worker's connection sees it
View(staging_table) ==
    [willwagen |-> willwagen \o workers[staging_table].facts,
     child |-> child \o workers[staging_table].children]

WorkerGetLastSyncTime(t) ==
    /\ workers[t].pc = "get"
    /\ \E last_sync_time \in get_last_sync_time(t) :
         workers' = [workers EXCEPT ![t].pc = "select", ![t].last_sync_time = last_sync_time]
    /\ UNCHANGED <<now, ls_default, staging, dl_ref, dim, willwagen, child, txn, sync_log, task,
                   run, ref_run, hist, budget, constraints, load_run, call,
                   celery, conv, batch, database, http, scraper, loader>>

WorkerSelectDelta(t) ==
    /\ workers[t].pc = "select"
    /\ LET rows == DeltaRows(staging[t], workers[t].last_sync_time)
       IN workers' = [workers EXCEPT ![t].pc = IF rows = {} THEN "sync" ELSE "row",
                                     ![t].rows = rows]
    /\ UNCHANGED <<now, ls_default, staging, dl_ref, dim, willwagen, child, txn, sync_log, task,
                   run, ref_run, hist, budget, constraints, load_run, call,
                   celery, conv, batch, database, http, scraper, loader>>

\* one iteration of the loop; the dl.willhaben branch commits after the row, the
\* dl.gebrauchtwagen branch leaves its rows uncommitted
WorkerProcessRow(t) ==
    /\ workers[t].pc = "row"
    /\ \E r \in workers[t].rows :
         LET row == transformations(t, r)
             overlapped == workers[t].overlapped \/ workers[Other(t)].pc = "row"
         IN IF t = "dl.willhaben"
            THEN \E car_type_id \in lookup("dwh.car_type", wh_car_type(row)),
                    make_id \in lookup("dwh.make", wh_make(row)),
                    model_id \in lookup("dwh.model", wh_model(row)) :
                   LET outcome == wh_outcome(row, car_type_id, make_id, model_id,
                                             View(t).willwagen)
                   IN /\ outcome \in {"skipped", "duplicate", "inserted"}
                      /\ willwagen' = IF outcome = "inserted"
                                      THEN Append(willwagen,
                                                  FactRow(source_id_of(t), row.id, NoId, make_id,
                                                          model_id, car_type_id, row.engine_fuel))
                                      ELSE willwagen
                      /\ child' = IF outcome = "inserted" THEN wh_children(child, row) ELSE child
                      /\ workers' = [workers EXCEPT ![t].rows = @ \ {r},
                                                    ![t].overlapped = overlapped]
            ELSE \E make_id \in lookup("dwh.make", gw_make(row)),
                    model_id \in lookup("dwh.model", gw_model(row)),
                    engine_fuel_id \in lookup("dwh.fuel", gw_engine_fuel(row)) :
                   LET outcome == gw_outcome(row, make_id, model_id, engine_fuel_id,
                                             View(t).willwagen)
                   IN /\ outcome \in {"skipped", "duplicate", "inserted"}
                      /\ workers' =
                           [workers EXCEPT
                              ![t].rows = @ \ {r},
                              ![t].overlapped = overlapped,
                              ![t].facts =
                                  IF outcome = "inserted"
                                  THEN Append(@, FactRow(source_id_of(t), NoId, row.id, make_id,
                                                         model_id, NoId, engine_fuel_id))
                                  ELSE @,
                              ![t].children =
                                  IF outcome = "inserted" THEN gw_children(@, row) ELSE @]
                      /\ UNCHANGED <<willwagen, child>>
    /\ UNCHANGED <<now, ls_default, staging, dl_ref, dim, txn, sync_log, task,
                   run, ref_run, hist, budget, constraints, load_run, call,
                   celery, conv, batch, database, http, scraper, loader>>

\* after the loop: UPDATE last_synced when a watermark was given, commit
WorkerFinishRun(t) ==
    /\ workers[t].pc = "row"
    /\ workers[t].rows = {}
    /\ staging' = [staging EXCEPT ![t] =
                     IF workers[t].last_sync_time # NoTime
                     THEN MarkSynced(@, workers[t].last_sync_time, now)
                     ELSE @]
    /\ willwagen' = View(t).willwagen
    /\ child' = View(t).child
    /\ workers' = [workers EXCEPT ![t].pc = "sync", ![t].facts = <<>>, ![t].children = <<>>]
    /\ UNCHANGED <<now, ls_default, dl_ref, dim, txn, sync_log, task,
                   run, ref_run, hist, budget, constraints, load_run, call,
                   celery, conv, batch, database, http, scraper, loader>>

WorkerUpdateSyncTime(t) ==
    /\ workers[t].pc = "sync"
    /\ sync_log' = update_sync_time(sync_log, t, now)
    /\ workers' = [workers EXCEPT ![t].pc = "done", ![t].written = now]
    /\ UNCHANGED <<now, ls_default, staging, dl_ref, dim, willwagen, child, txn, task,
                   run, ref_run, hist, budget, constraints, load_run, call,
                   celery, conv, batch, database, http, scraper, loader>>

ConcurrentTick ==
    /\ now < MaxTime
    /\ \E t \in StagingSet : workers[t].written = now
    /\ now' = now + 1
    /\ UNCHANGED <<ls_default, staging, dl_ref, dim, willwagen, child, txn, sync_log, task, run,
                   ref_run, hist, budget, constraints, load_run, call, workers,
                   celery, conv, batch, database, http, scraper, loader>>

ConcurrentNext ==
    \/ \E t \in StagingSet : WorkerGetLastSyncTime(t)
    \/ \E t \in StagingSet : WorkerSelectDelta(t)
    \/ \E t \in StagingSet : WorkerProcessRow(t)
    \/ \E t \in StagingSet : WorkerFinishRun(t)
    \/ \E t \in StagingSet : WorkerUpdateSyncTime(t)
    \/ ConcurrentTick

ConcurrentSpec == ConcurrentInit /\ [][ConcurrentNext]_vars

(***************************************************************************)
(* The same run executed alone, from the select to the commit, on the       *)
(* warehouse db = [willwagen, child].                                       *)
(***************************************************************************)
RECURSIVE SerialRows(_, _, _)
SerialRows(t, rows, db) ==
    IF rows = {} THEN db
    ELSE LET r == CHOOSE x \in rows : TRUE
             row == transformations(t, r)
             make_id == CHOOSE id \in lookup("dwh.make", IF t = "dl.willhaben" THEN wh_make(row)
                                                         ELSE gw_make(row)) : TRUE
             model_id == CHOOSE id \in lookup("dwh.model", IF t = "dl.willhaben"
                                                           THEN wh_model(row)
                                                           ELSE gw_model(row)) : TRUE
             car_type_id == CHOOSE id \in lookup("dwh.car_type", wh_car_type(row)) : TRUE
             engine_fuel_id == CHOOSE id \in lookup("dwh.fuel", gw_engine_fuel(row)) : TRUE
             outcome == IF t = "dl.willhaben"
                        THEN wh_outcome(row, car_type_id, make_id, model_id, db.willwagen)
                        ELSE gw_outcome(row, make_id, model_id, engine_fuel_id, db.willwagen)
             after ==
                IF outcome # "inserted" THEN db
                ELSE IF t = "dl.willhaben"
                THEN [willwagen |-> Append(db.willwagen,
                                           FactRow(source_id_of(t), row.id, NoId, make_id,
                                                   model_id, car_type_id, row.engine_fuel)),
                      child |-> wh_children(db.child, row)]
                ELSE [willwagen |-> Append(db.willwagen,
                                           FactRow(source_id_of(t), NoId, row.id, make_id,
                                                   model_id, NoId, engine_fuel_id)),
                      child |-> gw_children(db.child, row)]
         IN SerialRows(t, rows \ {r}, after)

SerialRun(t, db) == SerialRows(t, DeltaRows(staging[t], NoTime), db)

(***************************************************************************)
(* The database and the synchronization task at rest, for the              *)
(* specifications of the components that run beside them.                   *)
(***************************************************************************)
mainvars == <<now, ls_default, staging, dl_ref, dim, willwagen, child, txn, sync_log, task, run,
              ref_run, hist, budget, constraints, load_run, call, workers>>

AtRestOn(contents, dimensions) ==
    /\ now = 0
    /\ ls_default = "null"
    /\ staging = contents
    /\ dl_ref = [t \in RefSources |->
                   {[id |-> 1, name |-> IF t = "dl.make" THEN "mercedes_benz" ELSE "compact_car",
                     last_synced |-> NoTime]}]
    /\ dim = dimensions
    /\ willwagen = <<>>
    /\ child = <<>>
    /\ txn = [willwagen |-> <<>>, child |-> <<>>]
    /\ sync_log = {}
    /\ task = IdleTask
    /\ run = NoRun
    /\ ref_run = NoRefRun
    /\ hist = [unseen |-> [t \in StagingSet |-> {}],
               dirty |-> [t \in StagingSet |-> FALSE],
               prev |-> [t \in StagingSet |-> NoPrev],
               during |-> [t \in StagingSet |-> {}],
               watch |-> [t \in StagingSet |-> {}],
               recover |-> [t \in StagingSet |-> NoRecover],
               aborted |-> [t \in StagingSet |-> NoAborted],
               ref_recover |-> [t \in RefSources |-> NoRefRecover]]
    /\ budget = [runs |-> 0, inserts |-> 0, anomalies |-> 0]
    /\ constraints = {}
    /\ load_run = NoLoadRun
    /\ call = NoCall
    /\ workers = [t \in StagingSet |-> IdleWorker]

\* the dimension tables after the reference synchronization of the loaded files
SyncedDims ==
    [t \in DimTables |->
       CASE t = "dwh.make" -> <<DimRow(1, "mercedes_benz", NoId)>>
         [] t = "dwh.model" -> <<DimRow(1, "a_klasse", 1)>>
         [] t = "dwh.fuel" -> <<DimRow(1, "petrol", NoId)>>
         [] t = "dwh.car_type" -> <<DimRow(1, "compact_car", NoId)>>]

AtRestWith(contents) == AtRestOn(contents, SyncedDims)

AtRest == AtRestWith([t \in StagingSet |-> {}])

(***************************************************************************)
(* The /move_data_to_dwh route and the Celery worker.  Each request queues *)
(* one execution of move_data_to_dwh_task; the worker runs up to            *)
(* celery.concurrency executions at a time, each on a Database of its own.  *)
(***************************************************************************)
MaxRequests == 2
TaskIds == 1..MaxRequests

NoExec == [state |-> "none", pc |-> "idle", i |-> 0, table |-> "none",
           last_sync_time |-> NoTime, rows |-> {}, facts |-> <<>>, children |-> <<>>,
           delete_from_staging |-> FALSE, written |-> NoTime]

\* the contents of the staging tables when the requests arrive
CeleryStaging ==
    { [t \in StagingSet |-> IF t = "dl.willhaben" THEN wh ELSE gebrauchtwagen] :
        wh \in {{}, {StagingRow(1, NoTime, WhValid)}},
        gebrauchtwagen \in {{}, {StagingRow(1, NoTime, GwValid)}} }

CeleryInit ==
    /\ \E contents \in CeleryStaging : AtRestWith(contents)
    /\ \E concurrency \in 1..MaxRequests :
         celery = [concurrency |-> concurrency, queue |-> <<>>,
                   execs |-> [id \in TaskIds |-> NoExec]]
    /\ conv = NoConversion
    /\ batch = NoBatch
    /\ database = NoDatabase
    /\ http = NoHttp
    /\ scraper = NoScraper
    /\ loader = NoLoader

\* move_data_to_dwh_task.apply_async(args=[delete_from_staging])
move_data_to_dwh_route(id, delete_from_staging) ==
    /\ celery.execs[id].state = "none"
    /\ \A other \in TaskIds : other < id => celery.execs[other].state # "none"
    /\ celery' = [celery EXCEPT !.queue = Append(@, id),
                                !.execs[id].state = "queued",
                                !.execs[id].delete_from_staging = delete_from_staging]
    /\ UNCHANGED <<mainvars, conv, batch, database, http, scraper, loader>>

Started == {id \in TaskIds : celery.execs[id].state = "started"}

\* a free worker process takes the next message: db = Database(); db.connect()
ExecStart ==
    /\ celery.queue # <<>>
    /\ Cardinality(Started) < celery.concurrency
    /\ celery' = [celery EXCEPT !.queue = Tail(@),
                                !.execs[Head(celery.queue)].state = "started",
                                !.execs[Head(celery.queue)].pc = "ref_get",
                                !.execs[Head(celery.queue)].i = 1,
                                !.execs[Head(celery.queue)].table = tables_to_sync[1].source_table]
    /\ UNCHANGED <<mainvars, conv, batch, database, http, scraper, loader>>

At(id, pc) == celery.execs[id].state = "started" /\ celery.execs[id].pc = pc

\* last_sync_time = db.get_last_sync_time(...), for a reference table or a staging table
ExecGetLastSyncTime(id) ==
    /\ At(id, "ref_get") \/ At(id, "get")
    /\ \E last_sync_time \in get_last_sync_time(celery.execs[id].table) :
         celery' = [celery EXCEPT !.execs[id].last_sync_time = last_sync_time,
                                  !.execs[id].pc = IF At(id, "get") THEN "select" ELSE "ref_move"]
    /\ UNCHANGED <<mainvars, conv, batch, database, http, scraper, loader>>

\* db.move_reference_data(...): select, MERGE, UPDATE last_synced, commit
ExecMoveReferenceData(id) ==
    /\ At(id, "ref_move")
    /\ LET source_table == celery.execs[id].table
           last_sync_time == celery.execs[id].last_sync_time
           rows == DeltaRows(dl_ref[source_table], last_sync_time)
       IN IF rows = {}
          THEN UNCHANGED <<dim, dl_ref>>
          ELSE /\ dim' = [dim EXCEPT ![target_of(source_table)] = merge_rows(@, rows)]
               /\ dl_ref' = IF last_sync_time # NoTime
                            THEN [dl_ref EXCEPT ![source_table] =
                                    MarkSynced(@, last_sync_time, now)]
                            ELSE dl_ref
    /\ celery' = [celery EXCEPT !.execs[id].pc = "ref_sync"]
    /\ UNCHANGED <<now, ls_default, staging, willwagen, child, txn, sync_log, task, run, ref_run,
                   hist, budget, constraints, load_run, call, workers,
                   conv, batch, database, http, scraper, loader>>

\* db.update_sync_time(..., datetime.now()), for a reference table or a staging table
ExecUpdateSyncTime(id) ==
    /\ At(id, "ref_sync") \/ At(id, "sync")
    /\ sync_log' = update_sync_time(sync_log, celery.execs[id].table, now)
    /\ LET e == celery.execs[id]
           next == IF e.pc = "ref_sync"
                   THEN IF e.i < Len(tables_to_sync)
                        THEN [e EXCEPT !.pc = "ref_get", !.i = @ + 1,
                                       !.table = tables_to_sync[e.i + 1].source_table]
                        ELSE [e EXCEPT !.pc = "get", !.i = 1, !.table = StagingTables[1]]
                   ELSE IF e.i < Len(StagingTables)
                        THEN [e EXCEPT !.pc = "get", !.i = @ + 1,
                                       !.table = StagingTables[e.i + 1]]
                        ELSE [e EXCEPT !.pc = "return"]
       IN celery' = [celery EXCEPT !.execs[id] =
                       [next EXCEPT !.last_sync_time = NoTime, !.written = now]]
    /\ UNCHANGED <<now, ls_default, staging, dl_ref, dim, willwagen, child, txn, task, run,
                   ref_run, hist, budget, constraints, load_run, call, workers,
                   conv, batch, database, http, scraper, loader>>

\* move_data_to_dwh: the select
ExecSelectDelta(id) ==
    /\ At(id, "select")
    /\ LET rows == DeltaRows(staging[celery.execs[id].table], celery.execs[id].last_sync_time)
       IN celery' = [celery EXCEPT !.execs[id].rows = rows,
                                   !.execs[id].pc = IF rows = {} THEN "sync" ELSE "row"]
    /\ UNCHANGED <<mainvars, conv, batch, database, http, scraper, loader>>

\* the outcomes of the loop body for one row on the facts the connection sees:
\* the outcome and the fact row to insert
row_results(t, row, facts) ==
    IF t = "dl.willhaben"
    THEN { [outcome |-> wh_outcome(row, ids[1], ids[2], ids[3], facts),
            fact |-> FactRow(source_id_of(t), row.id, NoId, ids[2], ids[3], ids[1],
                             row.engine_fuel)] :
           ids \in lookup("dwh.car_type", wh_car_type(row)) \X lookup("dwh.make", wh_make(row))
                     \X lookup("dwh.model", wh_model(row)) }
    ELSE { [outcome |-> gw_outcome(row, ids[1], ids[2], ids[3], facts),
            fact |-> FactRow(source_id_of(t), NoId, row.id, ids[1], ids[2], NoId, ids[3])] :
           ids \in lookup("dwh.make", gw_make(row)) \X lookup("dwh.model", gw_model(row))
                     \X lookup("dwh.fuel", gw_engine_fuel(row)) }

\* move_data_to_dwh: one iteration of the loop
ExecProcessRow(id) ==
    /\ At(id, "row")
    /\ LET e == celery.execs[id]
       IN \E r \in e.rows :
            \E result \in row_results(e.table, transformations(e.table, r),
                                      willwagen \o e.facts) :
               /\ result.outcome \in {"skipped", "duplicate", "inserted"}
               /\ IF result.outcome # "inserted"
                  THEN /\ celery' = [celery EXCEPT !.execs[id].rows = @ \ {r}]
                       /\ UNCHANGED <<willwagen, child>>
                  ELSE IF e.table = "dl.willhaben"
                  THEN /\ willwagen' = Append(willwagen, result.fact)
                       /\ child' = wh_children(child, transformations(e.table, r))
                       /\ celery' = [celery EXCEPT !.execs[id].rows = @ \ {r}]
                  ELSE /\ celery' = [celery EXCEPT
                                       !.execs[id].rows = @ \ {r},
                                       !.execs[id].facts = Append(@, result.fact),
                                       !.execs[id].children =
                                           gw_children(@, transformations(e.table, r))]
                       /\ UNCHANGED <<willwagen, child>>
    /\ UNCHANGED <<now, ls_default, staging, dl_ref, dim, txn, sync_log, task, run, ref_run,
                   hist, budget, constraints, load_run, call, workers,
                   conv, batch, database, http, scraper, loader>>

\* move_data_to_dwh after the loop: DELETE, UPDATE last_synced, commit
ExecFinishRun(id) ==
    /\ At(id, "row")
    /\ celery.execs[id].rows = {}
    /\ LET e == celery.execs[id]
       IN /\ staging' = [staging EXCEPT ![e.table] =
                           IF e.delete_from_staging THEN {}
                           ELSE IF e.last_sync_time # NoTime
                           THEN MarkSynced(@, e.last_sync_time, now)
                           ELSE @]
          /\ willwagen' = willwagen \o e.facts
          /\ child' = child \o e.children
    /\ celery' = [celery EXCEPT !.execs[id].pc = "sync", !.execs[id].facts = <<>>,
                                !.execs[id].children = <<>>]
    /\ UNCHANGED <<now, ls_default, dl_ref, dim, txn, sync_log, task, run, ref_run,
                   hist, budget, constraints, load_run, call, workers,
                   conv, batch, database, http, scraper, loader>>

\* return {"status": "success", ...}; finally: db.close()
ExecReturn(id) ==
    /\ At(id, "return")
    /\ celery' = [celery EXCEPT !.execs[id].state = "done", !.execs[id].pc = "idle",
                                !.execs[id].table = "none"]
    /\ UNCHANGED <<mainvars, conv, batch, database, http, scraper, loader>>

CeleryTick ==
    /\ now < MaxTime
    /\ \E id \in TaskIds : celery.execs[id].written = now
    /\ now' = now + 1
    /\ UNCHANGED <<ls_default, staging, dl_ref, dim, willwagen, child, txn, sync_log, task, run,
                   ref_run, hist, budget, constraints, load_run, call, workers,
                   celery, conv, batch, database, http, scraper, loader>>

CeleryNext ==
    \/ \E id \in TaskIds, delete_from_staging \in BOOLEAN :
         move_data_to_dwh_route(id, delete_from_staging)
    \/ ExecStart
    \/ \E id \in TaskIds : ExecGetLastSyncTime(id)
    \/ \E id \in TaskIds : ExecMoveReferenceData(id)
    \/ \E id \in TaskIds : ExecUpdateSyncTime(id)
    \/ \E id \in TaskIds : ExecSelectDelta(id)
    \/ \E id \in TaskIds : ExecProcessRow(id)
    \/ \E id \in TaskIds : ExecFinishRun(id)
    \/ \E id \in TaskIds : ExecReturn(id)
    \/ CeleryTick

CelerySpec == CeleryInit /\ [][CeleryNext]_vars

(***************************************************************************)
(* The conversions applied to the columns of a staging row.                 *)
(*                                                                          *)
(* A UNIX time is an integer; an instant is the pair of its whole seconds   *)
(* and its milliseconds.  The threshold 10 ** 10 is scaled to 10 ** 4, the  *)
(* divisor 1000 is the code's.                                              *)
(***************************************************************************)
ms_threshold == 10000
NoInstant == [seconds |-> NoTime, millis |-> 0]
MaxSeconds == 30

\* the values of published and last_updated: null, 0, seconds and milliseconds
UnixTimes ==
    {NoTime} \cup 0..MaxSeconds \cup {1000 * s : s \in 1..MaxSeconds}
             \cup {ms_threshold + 1, 1000 * MaxSeconds + 999}

convert_unix_to_datetime_inclusive(unix_time) ==
    IF unix_time \in {NoTime, 0} THEN NoInstant
    ELSE IF unix_time >= ms_threshold
    THEN [seconds |-> unix_time \div 1000, millis |-> unix_time % 1000]
    ELSE [seconds |-> unix_time, millis |-> 0]

\* if not unix_time: return None; if unix_time > 10 ** 10: unix_time /= 1000;
\* datetime.fromtimestamp(unix_time, tz=timezone.utc)
convert_unix_to_datetime(unix_time) ==
    IF unix_time \in {NoTime, 0} THEN NoInstant
    ELSE IF unix_time > ms_threshold
    THEN [seconds |-> unix_time \div 1000, millis |-> unix_time % 1000]
    ELSE [seconds |-> unix_time, millis |-> 0]

(***************************************************************************)
(* A text is the sequence of its characters; NoText is the null column.     *)
(***************************************************************************)
NoText == <<None>>
MaxText == 3
Alphabet == {"1", "W", " ", ","}
Texts == {NoText} \cup UNION {[1..n -> Alphabet] : n \in 0..MaxText}

Index(text, sep) == CHOOSE k \in 1..Len(text) : text[k] = sep /\ \A j \in 1..(k - 1) : text[j] # sep

\* str.split(sep, maxsplit); maxsplit = -1 splits at every sep
RECURSIVE split(_, _, _)
split(text, sep, maxsplit) ==
    IF maxsplit = 0 \/ \A k \in 1..Len(text) : text[k] # sep
    THEN <<text>>
    ELSE <<SubSeq(text, 1, Index(text, sep) - 1)>>
           \o split(SubSeq(text, Index(text, sep) + 1, Len(text)), sep, maxsplit - 1)

NoParts == [raised |-> FALSE, first |-> NoText, second |-> NoText]

\* location_parts = row_dict["location"].split(" ", 1)
\* postcode = location_parts[0] if len(location_parts) > 1 else None; city likewise
gebrauchtwagen_location(location) ==
    IF location = NoText THEN [NoParts EXCEPT !.raised = TRUE]
    ELSE LET location_parts == split(location, " ", 1)
         IN IF Len(location_parts) > 1
            THEN [raised |-> FALSE, first |-> location_parts[1], second |-> location_parts[2]]
            ELSE NoParts

\* coordinates = row_dict["coordinates"].split(",") if row_dict["coordinates"] else [None, None]
\* "longitude": coordinates[0], "latitude": coordinates[1]
willhaben_coordinates(text) ==
    IF text = NoText \/ text = <<>> THEN NoParts
    ELSE LET coordinates == split(text, ",", 0 - 1)
         IN IF Len(coordinates) < 2
            THEN [NoParts EXCEPT !.raised = TRUE]
            ELSE [raised |-> FALSE, first |-> coordinates[1], second |-> coordinates[2]]

ConversionInit ==
    /\ AtRest
    /\ celery = NoCelery
    /\ \/ \E unix_time \in UnixTimes : conv = [NoConversion EXCEPT !.unix_time = unix_time]
       \/ \E text \in Texts : conv = [NoConversion EXCEPT !.text = text]
    /\ batch = NoBatch
    /\ database = NoDatabase
    /\ http = NoHttp
    /\ scraper = NoScraper
    /\ loader = NoLoader

ConvertUnixToDatetime ==
    /\ conv.fn = "none"
    /\ conv.text = NoText
    /\ conv' = [conv EXCEPT !.fn = "convert_unix_to_datetime",
                            !.instant = convert_unix_to_datetime(conv.unix_time)]
    /\ UNCHANGED <<mainvars, celery, batch, database, http, scraper, loader>>

SplitLocation ==
    /\ conv.fn = "none"
    /\ conv.unix_time = NoTime
    /\ conv' = [conv EXCEPT !.fn = "location", !.parts = gebrauchtwagen_location(conv.text)]
    /\ UNCHANGED <<mainvars, celery, batch, database, http, scraper, loader>>

SplitCoordinates ==
    /\ conv.fn = "none"
    /\ conv.unix_time = NoTime
    /\ conv' = [conv EXCEPT !.fn = "coordinates", !.parts = willhaben_coordinates(conv.text)]
    /\ UNCHANGED <<mainvars, celery, batch, database, http, scraper, loader>>

ConversionNext == ConvertUnixToDatetime \/ SplitLocation \/ SplitCoordinates

ConversionSpec == ConversionInit /\ [][ConversionNext]_vars

(***************************************************************************)
(* insert_data and insert_data_gebrauchtwagen: one call on one batch.  The  *)
(* rows are inserted in one transaction that is committed after the loop;   *)
(* each except clause of the loop rolls the transaction back.               *)
(***************************************************************************)
MaxBatch == 2

\* a scraped row: its id and the statement the database rejects for a reason other than
\* a duplicate key ("none", the INSERT of the row, an INSERT into dl.equipment)
BatchRows(table_name) ==
    [id : Ids,
     fault : IF table_name = "dl.willhaben" THEN {"none", "main", "equipment"}
             ELSE {"none", "main"}]

Batches(table_name) == UNION {[1..n -> BatchRows(table_name)] : n \in 0..MaxBatch}

InsertInit ==
    /\ \E table_name \in StagingSet :
         \E contents \in {{}, {StagingRow(1, NoTime, IF table_name = "dl.willhaben"
                                                     THEN WhValid ELSE GwValid)}} :
            AtRestWith([t \in StagingSet |-> IF t = table_name THEN contents ELSE {}])
    /\ celery = NoCelery
    /\ conv = NoConversion
    /\ batch = NoBatch
    /\ database = NoDatabase
    /\ http = NoHttp
    /\ scraper = NoScraper
    /\ loader = NoLoader

\* insert_data(table_name, data) / insert_data_gebrauchtwagen(df): successful_inserts = 0
InsertDataCall(table_name) ==
    /\ batch.pc = "idle"
    /\ \E data \in Batches(table_name) :
         batch' = [batch EXCEPT !.pc = "loop", !.table_name = table_name, !.data = data, !.k = 1]
    /\ UNCHANGED <<mainvars, celery, conv, database, http, scraper, loader>>

\* one iteration of `for row in data`
InsertDataRow ==
    /\ batch.pc = "loop"
    /\ batch.k <= Len(batch.data)
    /\ LET row == batch.data[batch.k]
           IntegrityError == row.id \in {r.id : r \in staging[batch.table_name]} \cup batch.pending
       IN batch' =
            IF IntegrityError \/ row.fault = "main"
            THEN \* the INSERT raises: self.conn.rollback(); continue
                 [batch EXCEPT !.k = @ + 1, !.pending = {}]
            ELSE IF row.fault = "equipment"
            THEN \* counted, then an INSERT into dl.equipment raises: rollback; continue
                 [batch EXCEPT !.k = @ + 1, !.pending = {},
                               !.successful_inserts = @ + 1, !.counted = @ \cup {row.id}]
            ELSE [batch EXCEPT !.k = @ + 1, !.pending = @ \cup {row.id},
                               !.successful_inserts = @ + 1, !.counted = @ \cup {row.id}]
    /\ UNCHANGED <<mainvars, celery, conv, database, http, scraper, loader>>

\* after the loop: self.conn.commit(), the log line with successful_inserts, return
InsertDataReturn ==
    /\ batch.pc = "loop"
    /\ batch.k > Len(batch.data)
    /\ staging' = [staging EXCEPT ![batch.table_name] =
                     @ \cup {StagingRow(id, NoTime, IF batch.table_name = "dl.willhaben"
                                                    THEN WhValid ELSE GwValid) :
                             id \in batch.pending}]
    /\ batch' = [batch EXCEPT !.pc = "returned", !.pending = {}]
    /\ UNCHANGED <<now, ls_default, dl_ref, dim, willwagen, child, txn, sync_log, task, run,
                   ref_run, hist, budget, constraints, load_run, call, workers,
                   celery, conv, database, http, scraper, loader>>

InsertNext ==
    \/ \E table_name \in StagingSet : InsertDataCall(table_name)
    \/ InsertDataRow
    \/ InsertDataReturn

InsertSpec == InsertInit /\ [][InsertNext]_vars

(***************************************************************************)
(* The task on a warehouse in which one model_name exists under two makes   *)
(* (dwh.model carries the make_id of each model): the executions are those  *)
(* of CelerySpec, one at a time.                                            *)
(***************************************************************************)
HomonymDims ==
    [SyncedDims EXCEPT !["dwh.make"] = <<DimRow(1, "mercedes_benz", NoId), DimRow(2, "tesla", NoId)>>,
                       !["dwh.model"] = <<DimRow(1, "a_klasse", 2), DimRow(2, "a_klasse", 1)>>]

HomonymInit ==
    /\ \E contents \in CeleryStaging : AtRestOn(contents, HomonymDims)
    /\ celery = [concurrency |-> 1, queue |-> <<>>, execs |-> [id \in TaskIds |-> NoExec]]
    /\ conv = NoConversion
    /\ batch = NoBatch
    /\ database = NoDatabase
    /\ http = NoHttp
    /\ scraper = NoScraper
    /\ loader = NoLoader

HomonymSpec == HomonymInit /\ [][CeleryNext]_vars

(***************************************************************************)
(* The Celery tasks and their Database object: db = Database(), the try     *)
(* block with db.connect() and the task's work, the except clause, and      *)
(* finally: db.close().                                                     *)
(***************************************************************************)
Tasks == {"fetch_cars_task", "periodic_fetch_task", "move_data_to_dwh_task"}

\* Database.close(): each of the two close() calls may raise, the exception is logged;
\* then self.conn = None and self.cursor = None
close_unguarded(d, cursor_raises, conn_raises) ==
    IF d.cursor # None /\ cursor_raises
    THEN [d EXCEPT !.closes = @ + 1, !.close_raised = @ \cup {"cursor"}]
    ELSE IF d.conn # None /\ conn_raises
    THEN [d EXCEPT !.closes = @ + 1, !.close_raised = @ \cup {"conn"}]
    ELSE [d EXCEPT !.conn = None, !.cursor = None, !.closes = @ + 1]

close(d, cursor_raises, conn_raises) ==
    [d EXCEPT !.conn = None, !.cursor = None, !.closes = @ + 1,
              !.close_raised = @ \cup (IF d.cursor # None /\ cursor_raises THEN {"cursor"} ELSE {})
                                 \cup (IF d.conn # None /\ conn_raises THEN {"conn"} ELSE {})]

TaskInit ==
    /\ AtRest
    /\ celery = NoCelery
    /\ conv = NoConversion
    /\ batch = NoBatch
    /\ database = NoDatabase
    /\ http = NoHttp
    /\ scraper = NoScraper
    /\ loader = NoLoader

\* the worker calls the task; retried counts the retries that came before
TaskCall(name) ==
    /\ database.pc \in {"idle", "exited"}
    /\ database.pc = "exited" => database.exit = "retry"
    /\ database.pc = "exited" => name = database.task
    /\ database' = [NoDatabase EXCEPT !.task = name, !.pc = "construct",
                                      !.retries = database.retries]
    /\ UNCHANGED <<mainvars, celery, conv, batch, http, scraper, loader>>

\* db = Database(), before the try: _load_env_file may raise
Construct(raises) ==
    /\ database.pc = "construct"
    /\ database' = IF raises
                   THEN [database EXCEPT !.pc = "exited", !.exit = "raise"]
                   ELSE [database EXCEPT !.pc = "connect", !.constructed = TRUE]
    /\ UNCHANGED <<mainvars, celery, conv, batch, http, scraper, loader>>

\* db.connect(): pymssql.connect(...) or self.conn.cursor() may raise
Connect(outcome) ==
    /\ database.pc = "connect"
    /\ database' =
         CASE outcome = "connected" ->
                [database EXCEPT !.pc = "body", !.conn = "conn", !.cursor = "cursor",
                                 !.opened = TRUE]
           [] outcome = "connect_raises" -> [database EXCEPT !.pc = "except"]
           [] outcome = "cursor_raises" ->
                [database EXCEPT !.pc = "except", !.conn = "conn", !.opened = TRUE]
    /\ UNCHANGED <<mainvars, celery, conv, batch, http, scraper, loader>>

\* the work of the task inside the try block: it returns or raises
Body(raises) ==
    /\ database.pc = "body"
    /\ database' = IF raises THEN [database EXCEPT !.pc = "except"]
                   ELSE [database EXCEPT !.pc = "finally", !.exit = "return"]
    /\ UNCHANGED <<mainvars, celery, conv, batch, http, scraper, loader>>

max_retries == 3

\* except Exception: self.update_state(...); raise self.retry(exc=e)   (move_data_to_dwh_task: raise)
Except ==
    /\ database.pc = "except"
    /\ database' =
         IF database.task # "move_data_to_dwh_task" /\ database.retries < max_retries
         THEN [database EXCEPT !.pc = "finally", !.exit = "retry", !.retries = @ + 1]
         ELSE [database EXCEPT !.pc = "finally", !.exit = "raise"]
    /\ UNCHANGED <<mainvars, celery, conv, batch, http, scraper, loader>>

\* finally: db.close()
Finally(cursor_raises, conn_raises) ==
    /\ database.pc = "finally"
    /\ database' = [close(database, cursor_raises, conn_raises) EXCEPT !.pc = "exited"]
    /\ UNCHANGED <<mainvars, celery, conv, batch, http, scraper, loader>>

TaskNext ==
    \/ \E name \in Tasks : TaskCall(name)
    \/ \E raises \in BOOLEAN : Construct(raises)
    \/ \E outcome \in {"connected", "connect_raises", "cursor_raises"} : Connect(outcome)
    \/ \E raises \in BOOLEAN : Body(raises)
    \/ Except
    \/ \E cursor_raises, conn_raises \in BOOLEAN : Finally(cursor_raises, conn_raises)

TaskSpec == TaskInit /\ [][TaskNext]_vars

(***************************************************************************)
(* Willhaben.get_response(url, params, retries, delay).                     *)
(***************************************************************************)
MaxRetries == 4

\* what one self.client.get(...) can lead to: a response whose JSON is returned, an HTTP
\* error status (raise_for_status), the IP-block message in the text, any other exception
Responses == {"ok", "http_error", "blocked", "exception"}

\* if attempt < retries: time.sleep(delay)
sleeps_after_always(attempt, retries) == TRUE

sleeps_after(attempt, retries) == attempt < retries

HttpInit ==
    /\ AtRest
    /\ celery = NoCelery
    /\ conv = NoConversion
    /\ batch = NoBatch
    /\ database = NoDatabase
    /\ http = NoHttp
    /\ scraper = NoScraper
    /\ loader = NoLoader

\* the call; `for attempt in range(1, retries + 1)` is empty when retries < 1
get_response(retries) ==
    /\ http.pc = "idle"
    /\ http' = IF retries < 1
               THEN [http EXCEPT !.pc = "returned", !.retries = retries, !.result = None]
               ELSE [http EXCEPT !.pc = "attempt", !.retries = retries, !.attempt = 1]
    /\ UNCHANGED <<mainvars, celery, conv, batch, database, scraper, loader>>

\* one iteration of the loop
Attempt(response) ==
    /\ http.pc = "attempt"
    /\ http' =
         IF response = "ok"
         THEN [http EXCEPT !.pc = "returned", !.result = "json",
                           !.responses = Append(@, response)]
         ELSE LET sleeps == IF sleeps_after(http.attempt, http.retries)
                            THEN http.sleeps \cup {http.attempt} ELSE http.sleeps
              IN IF http.attempt < http.retries
                 THEN [http EXCEPT !.attempt = @ + 1, !.sleeps = sleeps,
                                   !.responses = Append(@, response)]
                 ELSE [http EXCEPT !.pc = "returned", !.result = None, !.sleeps = sleeps,
                                   !.responses = Append(@, response)]
    /\ UNCHANGED <<mainvars, celery, conv, batch, database, scraper, loader>>

HttpNext ==
    \/ \E retries \in 0..MaxRetries : get_response(retries)
    \/ \E response \in Responses : Attempt(response)

HttpSpec == HttpInit /\ [][HttpNext]_vars

(***************************************************************************)
(* Gebrauchtwagen.fetch_filtered_data on one instance.  global_seen_ids is  *)
(* a module-level set; it may hold ids that another instance has seen.      *)
(* The page limit 20 and the page size 20 are scaled to 3 and 2.            *)
(***************************************************************************)
last_page == 3
page_size == 2
MaxListings == 4
MaxCalls == 2

\* a listing of the upstream: its id and whether firstRegistrationDate holds a year
Listings == [id : 1..MaxListings, dated : BOOLEAN]

\* what safe_request and response.json() give for one page: no usable response, or
\* data["listings"]
Pages ==
    {[ok |-> FALSE, listings |-> <<>>]}
      \cup {[ok |-> TRUE, listings |-> l] : l \in UNION {[1..n -> Listings] : n \in 0..page_size}}

\* if vehicle_id not in global_seen_ids
is_new_always(vehicle_id, seen) == TRUE

is_new(vehicle_id, seen) == vehicle_id \notin seen

\* if len(new_listings) == 0: break
no_new_results_never(new_listings) == FALSE

no_new_results(new_listings) == Len(new_listings) = 0

\* the loop over data["listings"]: the ids appended to new_listings and to data_list
RECURSIVE new_ids(_, _)
new_ids(listings, seen) ==
    IF listings = <<>> THEN <<>>
    ELSE IF is_new(Head(listings).id, seen)
    THEN <<Head(listings).id>> \o new_ids(Tail(listings), seen \cup {Head(listings).id})
    ELSE new_ids(Tail(listings), seen)

ScraperInit ==
    /\ AtRest
    /\ celery = NoCelery
    /\ conv = NoConversion
    /\ batch = NoBatch
    /\ database = NoDatabase
    /\ http = NoHttp
    /\ \E seen \in {{}, {1}} :
         scraper = [NoScraper EXCEPT !.global_seen_ids = seen, !.seen_before = seen]
    /\ loader = NoLoader

\* fetch_filtered_data(make, model, year_from): page = 1
fetch_filtered_data ==
    /\ scraper.pc \in {"idle", "returned"}
    /\ scraper.calls < MaxCalls
    /\ scraper' = [scraper EXCEPT !.pc = "loop", !.page = 1, !.calls = @ + 1,
                                  !.recursed = FALSE]
    /\ UNCHANGED <<mainvars, celery, conv, batch, database, http, loader>>

\* one iteration of `while True`
FetchPage(data) ==
    /\ scraper.pc = "loop"
    /\ LET listings == data.listings
           new_listings == new_ids(listings, scraper.global_seen_ids)
           fetched == [scraper EXCEPT
                         !.global_seen_ids = @ \cup {new_listings[k] : k \in 1..Len(new_listings)},
                         !.data_list = @ \o new_listings]
       IN scraper' =
            IF ~data.ok \/ listings = <<>>
            THEN [scraper EXCEPT !.pc = "returned"]
            ELSE IF no_new_results(new_listings)
            THEN [fetched EXCEPT !.pc = "returned"]
            ELSE IF scraper.page = last_page
            THEN IF \E k \in 1..Len(listings) : listings[k].dated
                 THEN \* self.fetch_filtered_data(make, model, last_year + 1); break
                      [fetched EXCEPT !.page = 1, !.recursed = TRUE]
                 ELSE [fetched EXCEPT !.pc = "returned"]
            ELSE IF Len(listings) < page_size
            THEN [fetched EXCEPT !.pc = "returned"]
            ELSE [fetched EXCEPT !.page = @ + 1]
    /\ UNCHANGED <<mainvars, celery, conv, batch, database, http, loader>>

ScraperNext ==
    \/ fetch_filtered_data
    \/ \E data \in Pages : FetchPage(data)

ScraperSpec == ScraperInit /\ [][ScraperNext]_vars

\* a call that has been made goes on: every request is answered or times out
ScraperFairSpec == ScraperSpec /\ WF_vars(\E data \in Pages : FetchPage(data))

(***************************************************************************)
(* The load_json route, statement by statement, on a database that keeps    *)
(* the rows of the loaded dl.* tables and the dwh.sync_log entries.  The    *)
(* connection has autocommit off: loader.rows and loader.log are what the   *)
(* request's transaction sees, loader.committed what the database holds.    *)
(***************************************************************************)
LoadedTables == UNION {table_mapping[entity] : entity \in DOMAIN table_mapping}

\* the loaded tables that move_data_to_dwh_task writes a watermark for
LoggedLoadedTables ==
    LoadedTables \cap {"dl.make", "dl.model", "dl.transmission", "dl.engine_fuel"}

TableRows(tables, ids) == {[table_name |-> t, id |-> k] : t \in tables, k \in ids}

WatermarkRows(tables) == {[table_name |-> t, last_sync_time |-> 0] : t \in tables}

Snapshot(l) == [rows |-> l.rows, log |-> l.log]

LoaderInit ==
    /\ AtRest
    /\ celery = NoCelery
    /\ conv = NoConversion
    /\ batch = NoBatch
    /\ database = NoDatabase
    /\ http = NoHttp
    /\ scraper = NoScraper
    /\ \E ids \in {{}, {1}}, logged \in SUBSET LoggedLoadedTables :
         LET held == [rows |-> TableRows(LoadedTables, ids), log |-> WatermarkRows(logged)]
         IN loader = [NoLoader EXCEPT !.rows = held.rows, !.log = held.log,
                                      !.committed = held]

\* the request: get_db() connects; the transaction starts from the committed state
LoadJsonRequest(entity, file) ==
    /\ loader.pc \in {"idle", "responded"}
    /\ loader' = [loader EXCEPT !.pc = "delete_sync_log", !.entity = entity,
                                !.ids = {file[k] : k \in DOMAIN file}, !.i = 1,
                                !.rows = loader.committed.rows,
                                !.log = loader.committed.log,
                                !.before = loader.committed, !.status = "none"]
    /\ UNCHANGED <<mainvars, celery, conv, batch, database, http, scraper>>

\* DELETE FROM dwh.sync_log WHERE table_name = %s for the entity's tables, uncommitted;
\* an exception here leaves the route through its outer handler
DeleteSyncLog(raises) ==
    /\ loader.pc = "delete_sync_log"
    /\ loader' = IF raises
                 THEN [loader EXCEPT !.pc = "close", !.status = "error"]
                 ELSE [loader EXCEPT !.pc = "loader",
                                     !.log = delete_sync_log(@, table_mapping[loader.entity])]
    /\ UNCHANGED <<mainvars, celery, conv, batch, database, http, scraper>>

\* one statement of the loader, on the rows and the log of the open transaction
RunStatement(l, st) ==
    CASE st.op = "delete" -> [l EXCEPT !.rows = {r \in @ : r.table_name # st.table}]
      [] st.op = "insert" -> [l EXCEPT !.rows = @ \cup TableRows({st.table}, l.ids)]
      [] st.op = "commit" -> [l EXCEPT !.committed = Snapshot(l)]
      [] OTHER -> l

\* self.conn.rollback(): the open transaction is undone, the route's deletions included
RollbackLoader(l) == [l EXCEPT !.rows = l.committed.rows, !.log = l.committed.log]

\* the loader's next statement; when it raises, the except clauses roll back and re-raise
LoaderStatement(raises) ==
    /\ loader.pc = "loader"
    /\ LET stmts == LoaderStatements(loader.entity)
           done == RunStatement(loader, stmts[loader.i])
       IN loader' = IF raises
                    THEN [RollbackLoader(loader) EXCEPT !.pc = "close", !.status = "raised"]
                    ELSE IF loader.i = Len(stmts)
                    THEN [done EXCEPT !.pc = "close", !.status = "returned"]
                    ELSE [done EXCEPT !.i = @ + 1]
    /\ UNCHANGED <<mainvars, celery, conv, batch, database, http, scraper>>

\* db.close(): what the transaction has not committed is discarded; the response is sent
CloseLoader ==
    /\ loader.pc = "close"
    /\ loader' = [RollbackLoader(loader) EXCEPT !.pc = "responded"]
    /\ UNCHANGED <<mainvars, celery, conv, batch, database, http, scraper>>

LoaderNext ==
    \/ \E entity \in DOMAIN table_mapping :
         \E file \in JsonFiles(entity) : LoadJsonRequest(entity, file)
    \/ \E raises \in BOOLEAN : DeleteSyncLog(raises)
    \/ \E raises \in BOOLEAN : LoaderStatement(raises)
    \/ CloseLoader

LoaderSpec == LoaderInit /\ [][LoaderNext]_vars

(***************************************************************************)
(* Properties.                                                              *)
(***************************************************************************)
ExternalId(fact) == IF fact.source_id = 1 THEN fact.willhaben_id ELSE fact.gw_guid

UniquePairs(facts) ==
    \A i, j \in 1..Len(facts) :
        i # j => ~(facts[i].source_id = facts[j].source_id
                   /\ ExternalId(facts[i]) = ExternalId(facts[j]))

InFacts(facts, source_id, id) ==
    \E k \in 1..Len(facts) : facts[k].source_id = source_id /\ ExternalId(facts[k]) = id

SourceFacts(facts, source_id) == SelectSeq(facts, LAMBDA f : f.source_id = source_id)

SourceChildren(children, source_id) ==
    SelectSeq(children, LAMBDA c : IF source_id = 1 THEN c.willhaben_id # NoId
                                   ELSE c.gebrauchtwagen_guid # NoId)

HasName(table, name) == \E k \in 1..Len(dim[table]) : dim[table][k].name = name

RowResolves(staging_table, r) ==
    IF staging_table = "dl.willhaben"
    THEN /\ r.car_type \in DOMAIN willhaben_car_type_mapping
         /\ HasName("dwh.car_type", willhaben_car_type_mapping[r.car_type])
         /\ HasName("dwh.make", wh_make(r))
         /\ HasName("dwh.model", wh_model(r))
    ELSE /\ HasName("dwh.make", gw_make(transformations(staging_table, r)))
         /\ HasName("dwh.model", gw_model(transformations(staging_table, r)))
         /\ HasName("dwh.fuel", gw_engine_fuel(transformations(staging_table, r)))

RowIsValid(staging_table, r) ==
    /\ RowResolves(staging_table, r)
    /\ r.fault = "none"
    /\ StrLen(r.postcode) <= max_length_postcode
    /\ ~InFacts(run.pre, source_id_of(staging_table), r.id)

AfterSelect(status) == status \in {"selected", "finished", "completed", "raised", "crashed"}

\* C1: after any number of runs, over any staging contents, no two rows of
\* dwh.willwagen have the same (source_id, external_id) pair, external_id being
\* willhaben_id for source 1 and gw_guid for source 2.
C1_UniqueSourceExternalId == UniquePairs(willwagen) /\ UniquePairs(txn.willwagen)

\* a run met a listing that was loaded already, and both sources have fact rows
C1_Witness ==
    /\ run.duplicate # {}
    /\ \E i, j \in 1..Len(willwagen) : willwagen[i].source_id = 1 /\ willwagen[j].source_id = 2

C3_PartialFailureIsolation ==
    LET bad == {r \in run.selected : ~RowResolves(run.table, r)}
        good == run.selected \ bad
    IN (/\ run.status \in {"finished", "completed", "raised"}
        /\ Cardinality(bad) = 1
        /\ \A r \in good : RowIsValid(run.table, r))
         => /\ run.status # "raised"
            /\ Cardinality(run.inserted) = Cardinality(run.selected) - 1
            /\ Cardinality(run.skipped) >= 1
            /\ \A r \in good : InFacts(willwagen, source_id_of(run.table), r.id)

C3_Witness ==
    LET bad == {r \in run.selected : ~RowResolves(run.table, r)}
        good == run.selected \ bad
    IN /\ run.status = "completed"
       /\ Cardinality(bad) = 1
       /\ good # {}
       /\ \A r \in good : RowIsValid(run.table, r)

\* C4: move_data_to_dwh never raises because of a failure confined to one row (its
\* fact insert or one of its child inserts fails): the row is recorded as failed and
\* the later rows are processed.
C4_NoRaiseForRowFailure == ~(run.status = "raised" /\ run.failed # {})

\* C5: when the fact insert or a child insert of row k fails, the fact rows of the rows
\* processed successfully before k in the same run are committed and stay in the
\* warehouse, in the dl.willhaben branch and in the dl.gebrauchtwagen branch.
C5_EarlierRowsStayCommitted ==
    (run.status = "raised" /\ run.failed # {})
        => \A id \in run.inserted : InFacts(willwagen, source_id_of(run.table), id)

\* C6: with a watermark W the candidate set of a run is exactly the set of rows whose
\* tracking timestamp is greater than W; without a watermark it is every row.  This
\* holds for the fact and for the reference synchronization.
C6_CandidateSet ==
    /\ AfterSelect(run.status) =>
         /\ run.selected \subseteq run.snapshot
         /\ \A r \in run.snapshot :
              r \in run.selected <=>
                 (run.watermark = NoTime
                    \/ (r.last_synced # NoTime /\ r.last_synced > run.watermark))
    /\ ref_run.status \in {"moved", "completed", "crashed"} =>
         /\ ref_run.selected \subseteq ref_run.snapshot
         /\ \A r \in ref_run.snapshot :
              r \in ref_run.selected <=>
                 (ref_run.watermark = NoTime
                    \/ (r.last_synced # NoTime /\ r.last_synced > ref_run.watermark))

\* a run with a watermark selected one row and left out another that has a timestamp
C6_Witness ==
    /\ run.status = "selected"
    /\ run.watermark # NoTime
    /\ run.selected # {}
    /\ \E r \in run.snapshot \ run.selected : r.last_synced # NoTime

\* C7: no staging row is silently skipped: at the delta SELECT of a run, every row of
\* the staging table that no run has selected yet is in the candidate set; in
\* particular a row written by insert_data after a run has completed.
C7_UnexaminedRowsAreSelected ==
    run.status \in {"selected", "finished"}
        => \A r \in run.snapshot : r.id \in run.unseen => r \in run.selected

\* C8: a row the scraper inserts while a run is in progress, after the run's delta
\* SELECT and before its watermark is written, is in the candidate set of the next run.
C8_RowsArrivingDuringRunAreSelectedNext ==
    run.status \in {"selected", "finished"}
        => \A r \in run.snapshot : r.id \in run.watch => r \in run.selected

\* C9: the watermark written at the end of a run, fact synchronization and reference
\* synchronization alike, is the time captured at the start of that run.
C9_WatermarkIsRunStart ==
    /\ run.status = "completed" => run.written = run.start
    /\ ref_run.status = "completed" => ref_run.written = ref_run.start

\* C10: after a crash between the commit of a run's data and update_sync_time, the
\* re-run leaves the warehouse with the rows the interrupted run had committed: no
\* duplicate fact, child or dimension row and no row missing.
C10_RerunAfterCrash ==
    /\ (run.status = "completed" /\ hist.recover[run.table].armed) =>
         /\ SourceFacts(willwagen, source_id_of(run.table))
              = SourceFacts(hist.recover[run.table].willwagen, source_id_of(run.table))
         /\ SourceChildren(child, source_id_of(run.table))
              = SourceChildren(hist.recover[run.table].child, source_id_of(run.table))
         /\ UniquePairs(willwagen)
    /\ (ref_run.status = "completed" /\ hist.ref_recover[ref_run.table].armed) =>
         dim[target_of(ref_run.table)] = hist.ref_recover[ref_run.table].rows

\* the re-run has completed and met the rows the crashed run had committed
C10_Witness ==
    /\ run.status = "completed"
    /\ hist.recover[run.table].armed
    /\ run.duplicate # {}

\* C11: a fact synchronization run that aborts part-way (an exception in a row, or a
\* shutdown between rows) leaves the table's entry in dwh.sync_log at its pre-run value,
\* and the next run on that table reads that value and selects again every row the
\* aborted run had selected.
C11_AbortedRunKeepsWatermark ==
    /\ \A t \in StagingSet :
          hist.aborted[t].armed => get_last_sync_time(t) = {hist.aborted[t].watermark}
    /\ (AfterSelect(run.status) /\ run.after_abort.armed) =>
          /\ run.watermark = run.after_abort.watermark
          /\ run.after_abort.selected \subseteq {r.id : r \in run.selected}

\* the run after an aborted run has selected the aborted run's rows, one of which the
\* aborted run had committed already
C11_Witness ==
    /\ run.status = "selected"
    /\ run.after_abort.armed
    /\ run.after_abort.selected # {}
    /\ run.pre # <<>>

\* C12: no fact row is inserted for a staging row one of whose required dimensions (car
\* type, make, model, fuel) does not resolve: the row is skipped, the run is not aborted
\* by it, and every other row of the batch is processed.  A dl.willhaben row whose
\* car_type has no mapping entry yields no fact row.
C12_UnresolvedRowYieldsNoFact ==
    /\ AfterSelect(run.status) =>
          \A r \in run.selected :
              ~RowResolves(run.table, r) =>
                  /\ r.id \notin run.inserted
                  /\ r.id \notin run.failed
                  /\ InFacts(txn.willwagen, source_id_of(run.table), r.id)
                        => InFacts(run.pre, source_id_of(run.table), r.id)
    /\ run.status \in {"finished", "completed"} =>
          {r.id : r \in run.selected} = run.inserted \cup run.skipped

\* a completed run skipped the row with the unknown car type label and inserted another
C12_Witness ==
    /\ run.status = "completed"
    /\ \E r \in run.selected :
          r.car_type = "unknown_type_label" /\ r.id \in run.skipped /\ r.id \notin run.inserted
    /\ run.inserted # {}

\* C13: in every committed state a listing's fact row and its child rows (location,
\* specification, description, image URL, SEO URL for dl.willhaben; location for
\* dl.gebrauchtwagen) are all present or all absent.
C13_FactAndChildrenTogether ==
    /\ \A k \in 1..Len(willwagen) :
          IF willwagen[k].source_id = 1
          THEN \A tbl \in WhChildTables :
                  \E c \in 1..Len(child) :
                      child[c].tbl = tbl /\ child[c].willhaben_id = willwagen[k].willhaben_id
          ELSE \E c \in 1..Len(child) :
                  child[c].tbl = "dwh.location"
                    /\ child[c].gebrauchtwagen_guid = willwagen[k].gw_guid
    /\ \A c \in 1..Len(child) :
          IF child[c].willhaben_id # NoId
          THEN InFacts(willwagen, 1, child[c].willhaben_id)
          ELSE InFacts(willwagen, 2, child[c].gebrauchtwagen_guid)

\* C14: within the processing of one row every dimension is resolved before the fact
\* insert is issued, and the fact insert is committed before the first child insert.
C14_FactCommittedBeforeChildren ==
    LET s == run.statements
    IN \A i \in 1..Len(s) :
          /\ s[i] = "insert_fact" => \A j \in 1..Len(s) : s[j] = "resolve" => j < i
          /\ s[i] = "insert_child" =>
                \E f, c \in 1..Len(s) :
                    f < c /\ c < i /\ s[f] = "insert_fact" /\ s[c] = "commit"
                      /\ \A j \in 1..Len(s) : s[j] = "insert_child" => c < j

C16_ZeroRowRunHidesNothing ==
    /\ (run.status \in {"finished", "completed"} /\ run.selected = {}) =>
          (txn.willwagen = run.pre /\ run.snapshot \subseteq staging[run.table])
    /\ (run.status \in {"selected", "finished"} /\ run.prev_completed
           /\ run.prev_selected = {}) =>
          \A r \in DeltaRows(run.snapshot, run.prev_watermark) :
              r.id \in run.unseen => r \in run.selected

\* C17: when the reference synchronization of a source table selects zero rows, the
\* table's watermark in dwh.sync_log is still advanced, to the time of this run, and
\* the step completes.
C17_EmptyReferenceRunAdvancesWatermark ==
    (ref_run.status = "completed" /\ ref_run.selected = {}) =>
        /\ get_last_sync_time(ref_run.table) = {ref_run.written}
        /\ ref_run.written # NoTime
        /\ ref_run.written >= ref_run.watermark

\* a reference synchronization with a watermark found nothing new in a filled table and
\* wrote a later watermark
C17_Witness ==
    /\ ref_run.status = "completed"
    /\ ref_run.selected = {}
    /\ ref_run.snapshot # {}
    /\ ref_run.watermark # NoTime
    /\ ref_run.written > ref_run.watermark

\* C18: after move_reference_data, for every selected source row the target holds
\* exactly one row with its key, with the source row's values (updated if the key was
\* there, inserted if not); the other target rows are unchanged; merging the same rows
\* again leaves the target as it is.
C18_MergeIsUpsert ==
    ref_run.status \in {"moved", "completed", "crashed"} =>
        LET target == dim[target_of(ref_run.table)]
            pre == ref_run.pre
            keys == {r.id : r \in ref_run.selected}
        IN /\ \A r \in ref_run.selected :
                 /\ Cardinality({k \in 1..Len(target) : target[k].id = r.id}) = 1
                 /\ \A k \in 1..Len(target) : target[k].id = r.id => target[k].name = r.name
           /\ Len(target) >= Len(pre)
           /\ \A k \in 1..Len(pre) : pre[k].id \notin keys => target[k] = pre[k]
           /\ \A k \in 1..Len(target) : k > Len(pre) => target[k].id \in keys
           /\ merge_rows(target, ref_run.selected) = target

\* a reference synchronization merged one row whose key the target held already and one
\* whose key was new
C18_Witness ==
    /\ ref_run.status = "completed"
    /\ \E r \in ref_run.selected : \E k \in 1..Len(ref_run.pre) : ref_run.pre[k].id = r.id
    /\ \E r \in ref_run.selected : \A k \in 1..Len(ref_run.pre) : ref_run.pre[k].id # r.id

\* C19: in every dimension table each natural-key value (make_name, model_name,
\* fuel_type, type) occurs in at most one row.
C19_NaturalKeyUnique ==
    \A t \in DimTables :
        \A i, j \in 1..Len(dim[t]) : i # j => dim[t][i].name # dim[t][j].name

\* C20: two rows of one run whose raw make is the same are given the same make id:
\* resolving a value twice against the same dimension table returns the same surrogate.
C20_SameValueSameSurrogate ==
    \A i, j \in 1..Len(txn.willwagen) :
        LET a == txn.willwagen[i]
            b == txn.willwagen[j]
        IN \A ra, rb \in run.selected :
              (/\ a.source_id = source_id_of(run.table)
               /\ b.source_id = source_id_of(run.table)
               /\ ExternalId(a) = ra.id /\ ra.id \in run.inserted
               /\ ExternalId(b) = rb.id /\ rb.id \in run.inserted
               /\ transformations(run.table, ra).make = transformations(run.table, rb).make)
                  => a.make_id = b.make_id

\* C21: lookup and lookup_or_insert called with an empty or null value return not-found
\* and leave the dimension table as it was; no dimension row has an empty natural key.
C21_EmptyValueIsNotFound ==
    /\ (call.fn # "none" /\ ~Truthy(call.value)) =>
          (call.result = NoId /\ dim[call.table] = call.pre)
    /\ \A t \in DimTables : \A k \in 1..Len(dim[t]) : Truthy(dim[t][k].name)

\* lookup_or_insert was called with the empty string on a filled table
C21_Witness ==
    /\ call.fn = "lookup_or_insert"
    /\ call.value = ""
    /\ call.pre # <<>>

\* the value a mapping with pass-through hands to the lookup, and whether the dimension
\* table has a row for it
PassThrough(mapping, value) == Get(mapping, value, value)
Found(table, value) ==
    Truthy(value) /\ \E k \in 1..Len(dim[table]) : dim[table][k].name = value

\* C22: a row of a run whose make, model, fuel and car type, each translated by its
\* mapping or passed through unchanged when the mapping has no entry, all have a row in
\* their dimension table, is not skipped as unresolved.
C22_UnmappedValuePassesThrough ==
    \A r \in run.selected :
        LET row == transformations(run.table, r)
            resolvable ==
                IF run.table = "dl.willhaben"
                THEN /\ Found("dwh.car_type", PassThrough(willhaben_car_type_mapping, row.car_type))
                     /\ Found("dwh.make", PassThrough(willhaben_make_mapping, row.make))
                     /\ Found("dwh.model", PassThrough(willhaben_model_mapping, row.model))
                ELSE /\ Found("dwh.make", PassThrough(gebrauchtwagen_make_mapping, row.make))
                     /\ Found("dwh.model", PassThrough(gebrauchtwagen_model_mapping, row.model))
                     /\ Found("dwh.fuel",
                              PassThrough(gebrauchtwagen_engine_fuel_mapping, row.engine_fuel))
        IN resolvable => r.id \notin run.skipped \ (run.duplicate \cup run.inserted)

\* C23: two rows of a run that differ only in the letter case of their make are both
\* resolved or both unresolved, and if both become facts these carry the same make id.
C23_MappingIgnoresCase ==
    \A ra, rb \in run.selected :
        (/\ lower(ra.make) = lower(rb.make)
         /\ [ra EXCEPT !.id = 0, !.last_synced = NoTime, !.make = ""]
              = [rb EXCEPT !.id = 0, !.last_synced = NoTime, !.make = ""]
         /\ {ra.id, rb.id} \subseteq (run.inserted \cup run.skipped) \ run.duplicate)
        => /\ ra.id \in run.inserted <=> rb.id \in run.inserted
           /\ \A i, j \in 1..Len(txn.willwagen) :
                 (/\ txn.willwagen[i].source_id = source_id_of(run.table)
                  /\ txn.willwagen[j].source_id = source_id_of(run.table)
                  /\ ExternalId(txn.willwagen[i]) = ra.id
                  /\ ExternalId(txn.willwagen[j]) = rb.id
                  /\ {ra.id, rb.id} \subseteq run.inserted)
                 => txn.willwagen[i].make_id = txn.willwagen[j].make_id

\* C24: a fact run does not change a staging row: until the run has succeeded every row
\* of the staging table it started from is still there, column for column, and
\* without delete_from_staging also after it.
C24_StagingIsOnlyRead ==
    /\ run.status \in {"selected", "raised"} =>
          run.snapshot \subseteq staging[run.table]
    /\ (run.status \in {"finished", "completed"} /\ ~run.delete_from_staging) =>
          run.snapshot \subseteq staging[run.table]

\* C25: with delete_from_staging the run removes only rows it processed: the rows it
\* did not select and the rows inserted while it ran are still in the staging table.
C25_DeletesOnlyProcessedRows ==
    (run.status = "finished" /\ run.delete_from_staging) =>
        LET remaining == {r.id : r \in staging[run.table]}
        IN /\ \A r \in run.snapshot \ run.selected : r.id \in remaining
           /\ hist.during[run.table] \subseteq remaining

\* the log rows of a table
LogRows(log, table_name) == {r \in log : r.table_name = table_name}

\* C26: dwh.sync_log holds at most one row per table_name, and the value written for a
\* table by update_sync_time stays the one get_last_sync_time returns until the next
\* update_sync_time for that table, which writes its own value and leaves the rows of
\* the other tables as they are.
C26_SyncLogIsKeyedUpsert ==
    [][\A t \in LoggedTables :
          /\ Cardinality(LogRows(sync_log', t)) <= 1
          /\ LogRows(sync_log', t) # LogRows(sync_log, t) =>
                /\ task.pc \in {"ref_sync", "sync"}
                /\ task.table = t
                /\ LogRows(sync_log', t) = {[table_name |-> t, last_sync_time |-> now]}]_vars

\* C27: dwh.sync_log is changed only by the task's update_sync_time, once the batch of
\* that table has completed and is committed, and only in that table's row.
C27_OnlySynchronizersWriteSyncLog ==
    [][sync_log' # sync_log =>
          /\ \/ task.pc = "ref_sync" /\ ref_run.table = task.table /\ ref_run.status = "moved"
             \/ task.pc = "sync" /\ run.table = task.table /\ run.status = "finished"
                   /\ txn = Committed
          /\ \A t \in LoggedTables \ {task.table} : LogRows(sync_log', t) = LogRows(sync_log, t)]_vars

\* C28: when get_last_sync_time raises at the start of a table's run, the task raises the
\* error to its caller without selecting or processing a row of that table and without
\* writing to the warehouse or to the sync log for it.
C28_UnreadableSyncLogAbortsRun ==
    run.unavailable =>
        /\ task.pc = "return"
        /\ task.raised = "get_last_sync_time"
        /\ run.selected = {} /\ run.inserted = {} /\ run.skipped = {}
        /\ txn = Committed
        /\ willwagen = run.pre
        /\ run.written = NoTime

\* get_last_sync_time raised for dl.gebrauchtwagen while rows of it were waiting, after
\* the run of dl.willhaben had written facts
C28_Witness ==
    /\ run.unavailable
    /\ run.table = "dl.gebrauchtwagen"
    /\ staging[run.table] # {}
    /\ willwagen # <<>>

\* C29: a fact synchronization starts only when the reference synchronization of every
\* entry of tables_to_sync has completed in this execution of the task, and after a
\* failed reference synchronization the task ends without a fact synchronization.
C29_ReferenceDataBeforeFacts ==
    /\ (task.pc \in {"get", "select", "row", "sync"} \/ run.status # "none") =>
          (task.ref_done = RefSources /\ ref_run.status = "completed")
    /\ ref_run.status \in {"raised", "crashed"} =>
          (task.pc = "return" /\ run.status = "none")

\* a reference synchronization failed while staging rows were waiting
C29_Witness ==
    /\ ref_run.status = "raised"
    /\ task.raised = "get_last_sync_time"
    /\ staging["dl.willhaben"] # {}

Rows(seq) == {seq[k] : k \in 1..Len(seq)}

\* C30: when the runs of dl.willhaben and dl.gebrauchtwagen, interleaved in any way, have
\* both ended, dwh.willwagen and the child tables hold the rows that one run after the
\* other leaves, in one of the two orders, and each table's watermark is the value its
\* own run wrote.
C30_InterleavedRunsAreSerializable ==
    (\A t \in StagingSet : workers[t].pc = "done") =>
        /\ \E first \in StagingSet :
             LET serial == SerialRun(Other(first),
                                     SerialRun(first, [willwagen |-> <<>>, child |-> <<>>]))
             IN /\ Rows(willwagen) = Rows(serial.willwagen)
                /\ Len(willwagen) = Len(serial.willwagen)
                /\ Rows(child) = Rows(serial.child)
                /\ Len(child) = Len(serial.child)
        /\ \A t \in StagingSet : get_last_sync_time(t) = {workers[t].written}

\* both runs have ended, each wrote facts while the other was inside its loop, and the
\* two watermarks differ
C30_Witness ==
    /\ \A t \in StagingSet : workers[t].pc = "done" /\ workers[t].overlapped
    /\ \E i, j \in 1..Len(willwagen) : willwagen[i].source_id # willwagen[j].source_id
    /\ workers["dl.willhaben"].written # workers["dl.gebrauchtwagen"].written

\* the executions that are inside the synchronization run of staging table t: from its
\* get_last_sync_time to its update_sync_time
Running(t) ==
    {id \in TaskIds : /\ celery.execs[id].state = "started"
                      /\ celery.execs[id].table = t
                      /\ celery.execs[id].pc \in {"get", "select", "row", "sync"}}

\* C31: at any time at most one execution of move_data_to_dwh_task is inside the
\* synchronization run of a given staging table.
C31_OneRunPerStagingTable == \A t \in StagingSet : Cardinality(Running(t)) <= 1

\* C32: convert_unix_to_datetime returns None for a null or zero value, reads a value
\* above the threshold as milliseconds and a positive value up to the threshold as
\* seconds, so that 1000 * s above the threshold gives the instant that s gives.
C32_MillisecondsAboveThreshold ==
    conv.fn = "convert_unix_to_datetime" =>
        LET unix_time == conv.unix_time
        IN /\ unix_time \in {NoTime, 0} => conv.instant = NoInstant
           /\ unix_time > ms_threshold =>
                1000 * conv.instant.seconds + conv.instant.millis = unix_time
           /\ (unix_time > 0 /\ unix_time <= ms_threshold) =>
                conv.instant = [seconds |-> unix_time, millis |-> 0]
           /\ \A s \in 1..MaxSeconds :
                (s <= ms_threshold /\ 1000 * s > ms_threshold /\ unix_time = 1000 * s) =>
                    conv.instant = [seconds |-> s, millis |-> 0]

\* a milliseconds value above the threshold has been converted to the instant of its seconds
C32_Witness ==
    /\ conv.fn = "convert_unix_to_datetime"
    /\ conv.unix_time > ms_threshold
    /\ conv.unix_time % 1000 = 0
    /\ conv.instant = [seconds |-> conv.unix_time \div 1000, millis |-> 0]
    /\ conv.instant.seconds <= ms_threshold

\* C33: when a composite text has no second part (no delimiter in it), splitting it does
\* not raise and the second value is null.
C33_MissingSecondPartIsNull ==
    (/\ conv.fn \in {"location", "coordinates"}
     /\ conv.text # NoText
     /\ \A k \in 1..Len(conv.text) :
          conv.text[k] # (IF conv.fn = "location" THEN " " ELSE ","))
        => (~conv.parts.raised /\ conv.parts.second = NoText)

\* C34: when insert_data has returned normally, every row it counted in
\* successful_inserts is in the staging table.
C34_CountedRowsArePresent ==
    batch.pc = "returned" =>
        \A id \in batch.counted : \E r \in staging[batch.table_name] : r.id = id

\* C35: the dwh.model row that a fact row references by model_id belongs to the make
\* that the fact row references by make_id.
C35_ModelBelongsToMake ==
    \A k \in 1..Len(willwagen) :
        \A j \in 1..Len(dim["dwh.model"]) :
            dim["dwh.model"][j].id = willwagen[k].model_id =>
                dim["dwh.model"][j].parent = willwagen[k].make_id

\* C36: a task that has left its try block on any path has called db.close(), and after
\* db.close() conn and cursor are None, whether or not closing raised.
C36_ConnectionClosedOnEveryExit ==
    /\ (database.pc = "exited" /\ database.constructed) => database.closes = 1
    /\ database.closes > 0 => (database.conn = None /\ database.cursor = None)

\* a task that had connected has left through the retry path, and closing the cursor raised
C36_Witness ==
    /\ database.pc = "exited"
    /\ database.exit = "retry"
    /\ database.opened
    /\ "cursor" \in database.close_raised
    /\ database.conn = None

\* C37: get_response sends at most `retries` requests; it returns the JSON of the first
\* request that succeeds; it sleeps after each failed request but the last; after
\* `retries` failed requests it returns None.
C37_BoundedRetries ==
    LET requests == Len(http.responses)
        failed == {k \in 1..requests : http.responses[k] # "ok"}
    IN /\ requests <= http.retries \/ requests = 0
       /\ http.sleeps \subseteq failed
       /\ http.pc = "returned" =>
            /\ http.result = "json" <=> (requests > 0 /\ http.responses[requests] = "ok")
            /\ http.result = "json" => failed = 1..(requests - 1) /\ http.sleeps = failed
            /\ http.result = None =>
                 /\ requests = (IF http.retries < 1 THEN 0 ELSE http.retries)
                 /\ failed = 1..requests
                 /\ http.sleeps = 1..(requests - 1)

\* the call returned the JSON of its last allowed request after the others had failed
C37_Witness ==
    /\ http.pc = "returned"
    /\ http.result = "json"
    /\ http.retries = MaxRetries
    /\ Len(http.responses) = MaxRetries
    /\ \E k \in 1..Len(http.responses) : http.responses[k] = "blocked"
    /\ \E k \in 1..Len(http.responses) : http.responses[k] = "http_error"

Range(seq) == {seq[k] : k \in 1..Len(seq)}

C39_FetchTerminates ==
    /\ [](scraper.page <= last_page)
    /\ [][(scraper.pc = "loop" /\ scraper'.pc = "loop") =>
            (scraper.global_seen_ids # scraper'.global_seen_ids
             /\ scraper.global_seen_ids \subseteq scraper'.global_seen_ids)]_vars
    /\ (scraper.pc = "loop" ~> scraper.pc = "returned")

\* a call that reached the page limit and called itself has returned
C39_Witness ==
    /\ scraper.pc = "returned"
    /\ scraper.recursed
    /\ scraper.page > 1

\* C40: a request of the load_json route that fails leaves the rows of the dl.*
\* reference tables and the dwh.sync_log entries as they were before the
\* request
C40_LoadJsonAllOrNothing ==
    (loader.pc = "responded" /\ loader.status \in {"raised", "error"})
        => loader.committed = loader.before

====
